---- MODULE Spec2Model ----
(***************************************************************************)
(* A model of the service worker src/sw.js (SatAlign Pro Enterprise):      *)
(* the cache-strategy engine, the expiry test and the cache lifecycle.     *)
(*                                                                         *)
(* Strings the code inspects with regular expressions or startsWith are    *)
(* sequences of tokens (a scheme, a host, "/", a name, an extension), so   *)
(* that a prefix or suffix test is computed, not assumed.                  *)
(***************************************************************************)
EXTENDS Integers, Sequences, FiniteSets, TLC

VARIABLES
    lastIndex,   \* the lastIndex property of each RegExp object of CACHE_PATTERNS
    probe,       \* the last application of a pure function: its input and its result
    store,       \* CacheStorage: cache name -> (request URL -> stored response)
    server,      \* the version of the content the network serves
    now,         \* Date.now()
    phase,       \* the worker's lifecycle state
    skipWaiting, \* whether self.skipWaiting() has been called
    controlled,  \* the clients this worker controls (what clients.matchAll() returns)
    evs          \* the events being handled: slot -> the state of the event's promise chains

pureVars == <<lastIndex, probe>>
sysVars == <<store, server, now, phase, skipWaiting, controlled, evs>>
vars == <<lastIndex, probe, store, server, now, phase, skipWaiting, controlled, evs>>

(***************************************************************************)
(* Bounds of the model.                                                    *)
(***************************************************************************)
\* the clock values considered are d * CACHE_EXPIRY + {-1, 0, 1}, d in 0..MaxDays
MaxDays == 2
\* the content versions the network serves are 1..MaxVersion
MaxVersion == 2
\* the events handled at the same time
MaxEvents == 2

(***************************************************************************)
(* Program constants (sw.js lines 1-18).                                   *)
(***************************************************************************)
CACHE_EXPIRY == 86400000

CACHE_NAME == <<"satalign-pro", "-enterprise-v3.0.0-production">>
APP_PREFIX == <<"satalign-pro">>

SelfHost == <<"app.satalign.pro">>
SelfOrigin == <<"https://">> \o SelfHost

\* A RegExp literal. kind "prefix": ^lit ; kind "suffix": (one of alts)$ .
\* ignoreCase is the i flag, global the g flag (none of the four has g).
CACHE_PATTERNS_global ==
    [images    |-> [kind |-> "suffix", lit |-> <<>>,
                    alts |-> {".jpg", ".jpeg", ".png", ".gif", ".webp", ".svg", ".ico"},
                    ignoreCase |-> TRUE, global |-> FALSE],
     fonts     |-> [kind |-> "suffix", lit |-> <<>>,
                    alts |-> {".woff", ".woff2", ".ttf", ".eot"},
                    ignoreCase |-> TRUE, global |-> FALSE],
     api       |-> [kind |-> "prefix", lit |-> <<"https://", "api.satalign.pro", "/">>,
                    alts |-> {}, ignoreCase |-> FALSE, global |-> TRUE],
     telemetry |-> [kind |-> "prefix", lit |-> <<"https://", "telemetry.satalign.pro", "/">>,
                    alts |-> {}, ignoreCase |-> FALSE, global |-> TRUE]]

CACHE_PATTERNS ==
    [images    |-> [kind |-> "suffix", lit |-> <<>>,
                    alts |-> {".jpg", ".jpeg", ".png", ".gif", ".webp", ".svg", ".ico"},
                    ignoreCase |-> TRUE, global |-> FALSE],
     fonts     |-> [kind |-> "suffix", lit |-> <<>>,
                    alts |-> {".woff", ".woff2", ".ttf", ".eot"},
                    ignoreCase |-> TRUE, global |-> FALSE],
     api       |-> [kind |-> "prefix", lit |-> <<"https://", "api.satalign.pro", "/">>,
                    alts |-> {}, ignoreCase |-> FALSE, global |-> FALSE],
     telemetry |-> [kind |-> "prefix", lit |-> <<"https://", "telemetry.satalign.pro", "/">>,
                    alts |-> {}, ignoreCase |-> FALSE, global |-> FALSE]]

Strategies == {"cache-first", "network-first", "stale-while-revalidate", "network-only"}

(***************************************************************************)
(* URLs (the result of new URL(request.url)): scheme, host, pathname and   *)
(* search; the scheme is a token and the others are sequences of tokens.   *)
(* A pathname always starts with "/".                                      *)
(***************************************************************************)
Href(url) == <<url.scheme>> \o url.host \o url.pathname \o url.search

Origin(url) == <<url.scheme>> \o url.host

\* Case folding of a token, as the i flag of a RegExp compares.
ToLower(tok) ==
    CASE tok = ".PNG"   -> ".png"
      [] tok = ".Woff2" -> ".woff2"
      [] OTHER          -> tok

\* RegExp.prototype.test(s) on the RegExp re whose lastIndex is li:
\* the result and the new lastIndex. Without the g flag the search starts
\* at 0 and lastIndex is left alone; with it, the search starts at lastIndex,
\* which becomes the end of the match, or 0 when there is none.
RegExpTest(re, li, s) ==
    LET start == IF re.global THEN li ELSE 0
        fold(t) == IF re.ignoreCase THEN ToLower(t) ELSE t
        found ==
            IF re.kind = "prefix"
            THEN /\ start = 0
                 /\ Len(s) >= Len(re.lit)
                 /\ SubSeq(s, 1, Len(re.lit)) = re.lit
            ELSE /\ Len(s) >= 1
                 /\ start < Len(s)
                 /\ fold(s[Len(s)]) \in re.alts
        end == IF re.kind = "prefix" THEN Len(re.lit) ELSE Len(s)
    IN  [ok |-> found,
         li |-> IF re.global THEN (IF found THEN end ELSE 0) ELSE li]

\* getCacheStrategy with the image and font tests after the document test.
getCacheStrategy_documentFirst(request, li) ==
    LET url == request.url
        a == RegExpTest(CACHE_PATTERNS.api, li.api, Href(url))
        t == RegExpTest(CACHE_PATTERNS.telemetry, li.telemetry, Href(url))
        i == RegExpTest(CACHE_PATTERNS.images, li.images, url.pathname)
        f == RegExpTest(CACHE_PATTERNS.fonts, li.fonts, url.pathname)
    IN  IF a.ok THEN [strategy |-> "network-first", li |-> [li EXCEPT !.api = a.li]]
        ELSE IF t.ok
        THEN [strategy |-> "network-only",
              li |-> [li EXCEPT !.api = a.li, !.telemetry = t.li]]
        ELSE IF request.destination = "document"
        THEN [strategy |-> "stale-while-revalidate",
              li |-> [li EXCEPT !.api = a.li, !.telemetry = t.li]]
        ELSE [strategy |-> "cache-first",
              li |-> [li EXCEPT !.api = a.li, !.telemetry = t.li,
                                !.images = i.li, !.fonts = f.li]]

\* getCacheStrategy(request): the strategy, and the lastIndex of the patterns
\* after the tests that ran (a later test runs only when the earlier failed).
getCacheStrategy(request, li) ==
    LET url == request.url
        a == RegExpTest(CACHE_PATTERNS.api, li.api, Href(url))
        t == RegExpTest(CACHE_PATTERNS.telemetry, li.telemetry, Href(url))
        i == RegExpTest(CACHE_PATTERNS.images, li.images, url.pathname)
        f == RegExpTest(CACHE_PATTERNS.fonts, li.fonts, url.pathname)
        li1 == [li EXCEPT !.api = a.li]
        li2 == [li1 EXCEPT !.telemetry = t.li]
        li3 == [li2 EXCEPT !.images = i.li]
        li4 == [li3 EXCEPT !.fonts = f.li]
    IN  IF a.ok THEN [strategy |-> "network-first", li |-> li1]
        ELSE IF t.ok THEN [strategy |-> "network-only", li |-> li2]
        ELSE IF i.ok THEN [strategy |-> "cache-first", li |-> li3]
        ELSE IF f.ok THEN [strategy |-> "cache-first", li |-> li4]
        ELSE IF request.destination = "document"
        THEN [strategy |-> "stale-while-revalidate", li |-> li4]
        ELSE [strategy |-> "cache-first", li |-> li4]

(***************************************************************************)
(* The requests the selector is applied to.                                *)
(***************************************************************************)
Schemes == {"https://", "http://"}
Hosts == {SelfHost, <<"api.satalign.pro">>, <<"telemetry.satalign.pro">>,
          <<"cdn.example.com">>, <<"api.satalign.pro", ".example.com">>}
Pathnames == {<<"/">>, <<"/", "index", ".html">>, <<"/", "logo", ".png">>,
              <<"/", "logo", ".PNG">>, <<"/", "font", ".Woff2">>,
              <<"/", "v1", "/", "positions">>, <<"/", "logo", ".png", "/">>}
Searches == {<<>>, <<"?", "src=a", ".png">>}
Destinations == {"document", "image", "font", "script", ""}

Urls == [scheme : Schemes, host : Hosts, pathname : Pathnames, search : Searches]
SelectorRequests == [method : {"GET"}, url : Urls, destination : Destinations]

NoProbe == [fn |-> "none"]

Slots == 1..MaxEvents
Idle == [kind |-> "idle", settled |-> TRUE, dels |-> {}, fault |-> FALSE]
EmptyCache == [k \in {} |-> 0]
NoCaches == [n \in {} |-> 0]

\* the worker before it is installed, with an empty CacheStorage
InitIdle ==
    /\ store = NoCaches
    /\ server = 1
    /\ now = 0
    /\ phase = "parsed"
    /\ skipWaiting = FALSE
    /\ controlled = {}
    /\ evs = [e \in Slots |-> Idle]

InitPure ==
    /\ lastIndex = [images |-> 0, fonts |-> 0, api |-> 0, telemetry |-> 0]
    /\ probe = NoProbe

\* One call of getCacheStrategy(request).
SelectStrategy ==
    \E request \in SelectorRequests :
        LET r == getCacheStrategy(request, lastIndex)
        IN  /\ probe' = [fn |-> "getCacheStrategy", request |-> request,
                         out |-> r.strategy]
            /\ lastIndex' = r.li
            /\ UNCHANGED sysVars

InitSelect == InitPure /\ InitIdle
NextSelect == SelectStrategy
SpecSelect == InitSelect /\ [][NextSelect]_vars

(***************************************************************************)
(* C1. Selection is total and deterministic: every call returns one of the *)
(* four strategies, and a further call for the same request, made in the   *)
(* state the call left behind, returns the same strategy.                  *)
(***************************************************************************)
C1_SelectionTotalDeterministic ==
    probe.fn = "getCacheStrategy" =>
        /\ probe.out \in Strategies
        /\ getCacheStrategy(probe.request, lastIndex).strategy = probe.out

\* a call for an API URL returned network-first
C1_Witness ==
    /\ probe.fn = "getCacheStrategy"
    /\ probe.request.url.host = <<"api.satalign.pro">>
    /\ probe.request.url.scheme = "https://"
    /\ probe.out = "network-first"

(***************************************************************************)
(* C2. Selection follows the precedence telemetry > api > image > font >   *)
(* document > default: the result is that of a selector which tests the    *)
(* patterns in that order, first match wins.                               *)
(***************************************************************************)
Matches(re, s) == RegExpTest([re EXCEPT !.global = FALSE], 0, s).ok

ReferenceSelector(request) ==
    LET url == request.url
    IN  IF Matches(CACHE_PATTERNS.telemetry, Href(url)) THEN "network-only"
        ELSE IF Matches(CACHE_PATTERNS.api, Href(url)) THEN "network-first"
        ELSE IF Matches(CACHE_PATTERNS.images, url.pathname) THEN "cache-first"
        ELSE IF Matches(CACHE_PATTERNS.fonts, url.pathname) THEN "cache-first"
        ELSE IF request.destination = "document" THEN "stale-while-revalidate"
        ELSE "cache-first"

IsTelemetryUrl(url) == url.scheme = "https://" /\ url.host = <<"telemetry.satalign.pro">>
IsApiUrl(url) == url.scheme = "https://" /\ url.host = <<"api.satalign.pro">>
HasImageOrFontPath(url) ==
    url.pathname \in {<<"/", "logo", ".png">>, <<"/", "logo", ".PNG">>,
                      <<"/", "font", ".Woff2">>}

C2_SelectionPrecedence ==
    probe.fn = "getCacheStrategy" =>
        LET request == probe.request
            url == request.url
        IN  /\ probe.out = ReferenceSelector(request)
            /\ IsTelemetryUrl(url) => probe.out = "network-only"
            /\ IsApiUrl(url) => probe.out = "network-first"
            /\ (~IsTelemetryUrl(url) /\ ~IsApiUrl(url) /\ HasImageOrFontPath(url))
                   => probe.out = "cache-first"
            /\ (~IsTelemetryUrl(url) /\ ~IsApiUrl(url) /\ ~HasImageOrFontPath(url))
                   => probe.out = (IF request.destination = "document"
                                   THEN "stale-while-revalidate" ELSE "cache-first")

\* several patterns match: an image path requested as a document
C2_Witness ==
    /\ probe.fn = "getCacheStrategy"
    /\ probe.request.url.host = SelfHost
    /\ probe.request.url.pathname = <<"/", "logo", ".PNG">>
    /\ probe.request.destination = "document"
    /\ probe.out = "cache-first"

(***************************************************************************)
(* Header values are strings: sequences of one-character tokens.           *)
(* Date.now().toString() writes a number in decimal; parseInt reads the    *)
(* longest decimal prefix (after blanks and a sign) and gives NaN when     *)
(* there is none.                                                          *)
(***************************************************************************)
Digits == <<"0", "1", "2", "3", "4", "5", "6", "7", "8", "9">>

DigitValue(c) == CHOOSE d \in 0..9 : Digits[d + 1] = c

IsDigit(c) == \E d \in 0..9 : Digits[d + 1] = c

RECURSIVE NumberToString(_)
NumberToString(n) ==
    IF n < 10 THEN <<Digits[n + 1]>>
    ELSE NumberToString(n \div 10) \o <<Digits[(n % 10) + 1]>>

\* a number as JavaScript has it here: an integer, or NaN
NaN == [nan |-> TRUE, val |-> 0]
Num(n) == [nan |-> FALSE, val |-> n]

RECURSIVE SkipBlanks(_)
SkipBlanks(s) == IF s # <<>> /\ Head(s) = " " THEN SkipBlanks(Tail(s)) ELSE s

\* the value of the leading digits of s, continuing the value acc
RECURSIVE ReadDigits(_, _)
ReadDigits(s, acc) ==
    IF s # <<>> /\ IsDigit(Head(s))
    THEN ReadDigits(Tail(s), acc * 10 + DigitValue(Head(s)))
    ELSE acc

\* parseInt(s): an integer, or NaN
parseInt(s) ==
    LET t == SkipBlanks(s)
        neg == t # <<>> /\ Head(t) = "-"
        u == IF t # <<>> /\ Head(t) \in {"-", "+"} THEN Tail(t) ELSE t
    IN  IF u = <<>> \/ ~IsDigit(Head(u)) THEN NaN
        ELSE IF neg THEN Num(0 - ReadDigits(u, 0)) ELSE Num(ReadDigits(u, 0))

\* Headers.get(name): the value, or null
Null == [null |-> TRUE, value |-> <<>>]
HeadersGet(headers, name) ==
    IF name \in DOMAIN headers THEN [null |-> FALSE, value |-> headers[name]] ELSE Null

\* isExpired with the operands of the subtraction exchanged.
isExpired_swapped(response, dateNow) ==
    LET cachedTime == HeadersGet(response.headers, "sw-cached-time")
    IN  IF cachedTime.null \/ cachedTime.value = <<>> THEN FALSE
        ELSE LET t == parseInt(cachedTime.value)
             IN  IF t.nan THEN FALSE ELSE (t.val - dateNow) > CACHE_EXPIRY

\* isExpired(response), evaluated when Date.now() is dateNow.
\* !cachedTime holds for null and for the empty string; a comparison with
\* NaN is false.
isExpired(response, dateNow) ==
    LET cachedTime == HeadersGet(response.headers, "sw-cached-time")
    IN  IF cachedTime.null \/ cachedTime.value = <<>> THEN FALSE
        ELSE LET t == parseInt(cachedTime.value)
             IN  IF t.nan THEN FALSE ELSE (dateNow - t.val) > CACHE_EXPIRY

(***************************************************************************)
(* The responses and clock values isExpired is applied to.                 *)
(***************************************************************************)
Times == {d * CACHE_EXPIRY + j : d \in 0..MaxDays, j \in {-1, 0, 1}} \ {-1}

\* header values that are no timestamp written by the worker
OddHeaderValues == {<<>>, <<"x">>, <<"1", "2", "x">>, <<" ", "7">>, <<"-", "5">>}

PlainHeaders == [x \in {"content-type"} |-> <<"t">>]

WithCachedTime(headers, value) ==
    [h \in DOMAIN headers \cup {"sw-cached-time"} |->
        IF h = "sw-cached-time" THEN value ELSE headers[h]]

\* One call of isExpired(response) at clock value t: on a response stamped
\* at clock value s, on one with no sw-cached-time header, or on one whose
\* header holds something else.
CheckExpiry ==
    \E t \in Times :
        /\ \/ \E s \in Times :
                LET response == [headers |-> WithCachedTime(PlainHeaders, NumberToString(s))]
                IN  probe' = [fn |-> "isExpired", response |-> response, stamped |-> TRUE,
                              cachedAt |-> s, dateNow |-> t, out |-> isExpired(response, t)]
           \/ LET response == [headers |-> PlainHeaders]
              IN  probe' = [fn |-> "isExpired", response |-> response, stamped |-> FALSE,
                            cachedAt |-> 0, dateNow |-> t, out |-> isExpired(response, t)]
           \/ \E v \in OddHeaderValues :
                LET response == [headers |-> WithCachedTime(PlainHeaders, v)]
                IN  probe' = [fn |-> "isExpired", response |-> response, stamped |-> FALSE,
                              cachedAt |-> 0, dateNow |-> t, out |-> isExpired(response, t)]
        /\ UNCHANGED lastIndex
        /\ UNCHANGED sysVars

InitExpiry == InitPure /\ InitIdle
NextExpiry == CheckExpiry
SpecExpiry == InitExpiry /\ [][NextExpiry]_vars

(***************************************************************************)
(* C6. isExpired judges an entry stamped more than CACHE_EXPIRY (24 h) ago *)
(* expired, one stamped less than CACHE_EXPIRY ago not expired, and one    *)
(* with no sw-cached-time header never expired, whatever the clock; the    *)
(* call changes nothing (the regular expressions' state included).         *)
(***************************************************************************)
C6_ExpiryJudgement ==
    /\ probe.fn = "isExpired" =>
        /\ (probe.stamped /\ probe.dateNow - probe.cachedAt > CACHE_EXPIRY) => probe.out
        /\ (probe.stamped /\ probe.dateNow - probe.cachedAt < CACHE_EXPIRY) => ~probe.out
        /\ "sw-cached-time" \notin DOMAIN probe.response.headers => ~probe.out
    /\ lastIndex = [images |-> 0, fonts |-> 0, api |-> 0, telemetry |-> 0]

\* an entry one millisecond past the TTL was judged expired
C6_Witness ==
    /\ probe.fn = "isExpired"
    /\ probe.stamped
    /\ probe.cachedAt = CACHE_EXPIRY - 1
    /\ probe.dateNow = 2 * CACHE_EXPIRY
    /\ probe.out

(***************************************************************************)
(* CacheStorage and the network.                                           *)
(*                                                                         *)
(* sw.js declares fetchAndCache, getCacheStatus and syncSatelliteData      *)
(* twice (lines 209 and 816, 510 and 896, 555 and 999) and registers two   *)
(* listeners for each event (lines 21-464 and 713-1133). It is one classic *)
(* script: function declarations are hoisted and the later declaration of  *)
(* a name is the one every call reaches, and both listeners of an event    *)
(* run, in the order registered.                                           *)
(***************************************************************************)
StartsWith(s, prefix) ==
    /\ Len(s) >= Len(prefix)
    /\ SubSeq(s, 1, Len(prefix)) = prefix

\* cache names left by an earlier version of the worker and by other code of
\* the origin; the second is another application's, and starts with the prefix
OldV2 == <<"satalign-pro", "-enterprise-v2.0.0">>
Profile == <<"satalign-pro", "file-images">>
Foreign == <<"workbox-precache">>
CacheNames == {CACHE_NAME, OldV2, Profile, Foreign}

\* a string resolved against the worker's location: a same-origin URL
SelfUrl(pathname) ==
    [scheme |-> "https://", host |-> SelfHost, pathname |-> pathname, search |-> <<>>]

STATIC_RESOURCES == <<SelfUrl(<<"/">>), SelfUrl(<<"/", "index", ".html">>),
                      SelfUrl(<<"/", "manifest", ".json">>)>>

StaticUrls == {STATIC_RESOURCES[i] : i \in 1..Len(STATIC_RESOURCES)}

\* the type of the response to a request made by the worker: "basic" for a
\* same-origin URL, "cors" for another origin's
ResponseType(url) == IF Origin(url) = SelfOrigin THEN "basic" ELSE "cors"

\* the network's response to a GET of url, with status st, when the server
\* serves version v
NetworkResponse(url, st, v) ==
    [status |-> st, body |-> [kind |-> "content", url |-> url, version |-> v],
     type |-> ResponseType(url), headers |-> PlainHeaders]

\* a put that leaves an entry that is already there
CachePut_firstWins(cache, url, response) ==
    [k \in DOMAIN cache \cup {url} |-> IF k \in DOMAIN cache THEN cache[k] ELSE response]

CachePut(cache, url, response) ==
    [k \in DOMAIN cache \cup {url} |-> IF k = url THEN response ELSE cache[k]]

\* caches.open(name): the cache is created when it does not exist
Opened(st, name) ==
    IF name \in DOMAIN st THEN st
    ELSE [n \in DOMAIN st \cup {name} |-> IF n = name THEN EmptyCache ELSE st[n]]

\* caches.delete(name)
Deleted(st, name) == [n \in DOMAIN st \ {name} |-> st[n]]

\* cache.put(url, response) through a cache opened under name
Written(st, name, url, response) ==
    IF name \in DOMAIN st
    THEN [st EXCEPT ![name] = CachePut(st[name], url, response)]
    ELSE st

\* an addAll that stores the responses under a sw-cached-time header
AddedAll_stamped(st, name, urls, v) ==
    IF name \in DOMAIN st
    THEN [st EXCEPT ![name] =
            [k \in DOMAIN st[name] \cup urls |->
                IF k \in urls
                THEN [NetworkResponse(k, 200, v) EXCEPT
                         !.headers = [h \in DOMAIN PlainHeaders \cup {"sw-cached-time"} |->
                                         IF h = "sw-cached-time" THEN <<"0">>
                                         ELSE PlainHeaders[h]]]
                ELSE st[name][k]]]
    ELSE st

\* cache.addAll(urls): all the responses are stored, or none
AddedAll(st, name, urls, v) ==
    IF name \in DOMAIN st
    THEN [st EXCEPT ![name] =
            [k \in DOMAIN st[name] \cup urls |->
                IF k \in urls THEN NetworkResponse(k, 200, v) ELSE st[name][k]]]
    ELSE st

\* the sweep without the prefix test
OldCaches_anyPrefix(names) == {n \in names : n # CACHE_NAME}

\* the sweep that stops after the first old cache
OldCaches_firstOnly(names) ==
    LET old == {n \in names : StartsWith(n, APP_PREFIX) /\ n # CACHE_NAME}
    IN  IF old = {} THEN {} ELSE {CHOOSE n \in old : TRUE}

\* the caches the activation sweep deletes (lines 469-471 and 741)
OldCaches(names) == {n \in names : StartsWith(n, APP_PREFIX) /\ n # CACHE_NAME}

\* CLEAR_CACHE sparing the current cache
AppCaches_oldOnly(names) == {n \in names : StartsWith(n, APP_PREFIX) /\ n # CACHE_NAME}

\* the caches CLEAR_CACHE deletes (lines 542 and 927)
AppCaches(names) == {n \in names : StartsWith(n, APP_PREFIX)}

Clients == <<"c1", "c2">>
ClientSet == {Clients[i] : i \in 1..Len(Clients)}

\* the messages a forEach over clients.matchAll() posts
Broadcast(type) ==
    LET to == SelectSeq(Clients, LAMBDA c : c \in controlled)
    IN  [i \in 1..Len(to) |-> [to |-> to[i], type |-> type]]

\* no promise of any event is pending: the next event is dispatched
\* only then when events are handled one at a time
Settled(ev) == ev.settled /\ ev.dels = {}
Quiescent == \A e \in Slots : Settled(evs[e])

\* the cache contents an earlier version of the worker, or the page, left
PersistedCache(name) ==
    [k \in {STATIC_RESOURCES[1], STATIC_RESOURCES[2]} |-> NetworkResponse(k, 200, 0)]

PersistedStore(names) == [n \in names |-> PersistedCache(n)]

(***************************************************************************)
(* install (both listeners: lines 21-48 and 713-730).                      *)
(*   l1: Promise.all([caches.open(CACHE_NAME).then(addAll),                *)
(*                    self.skipWaiting()]).then(broadcast).catch(rethrow)   *)
(*   l2: caches.open(CACHE_NAME).then(addAll).then(skipWaiting)            *)
(*                    .catch(rethrow)                                       *)
(* fault records that a CacheStorage operation or clients.claim() failed.  *)
(***************************************************************************)
DispatchInstall(e) ==
    /\ phase = "parsed"
    /\ evs[e].kind = "idle"
    /\ phase' = "installing"
    /\ skipWaiting' = TRUE     \* line 33: called while the promises are built
    /\ evs' = [evs EXCEPT ![e] =
                 [kind |-> "install", l1 |-> "open", l2 |-> "open", dels |-> {},
                  fault |-> FALSE, posted |-> <<>>, settled |-> FALSE, pre |-> store]]
    /\ UNCHANGED <<pureVars, store, server, now, controlled>>

\* caches.open(CACHE_NAME) of listener l resolves or rejects
InstallOpen(e, l) ==
    /\ evs[e].kind = "install"
    /\ evs[e][l] = "open"
    /\ \/ /\ store' = Opened(store, CACHE_NAME)
          /\ evs' = [evs EXCEPT ![e][l] = "addAll"]
       \/ /\ evs' = [evs EXCEPT ![e][l] = "failed", ![e].fault = TRUE]
          /\ UNCHANGED store
    /\ UNCHANGED <<pureVars, server, now, phase, skipWaiting, controlled>>

\* the listener's chain going on without waiting for addAll (no return)
InstallAddAll_notAwaited(e, l) ==
    /\ evs[e].kind = "install"
    /\ evs[e][l] = "addAll"
    /\ evs' = [evs EXCEPT ![e][l] = IF l = "l1" THEN "broadcast" ELSE "skipWaiting"]
    /\ UNCHANGED <<pureVars, store, server, now, phase, skipWaiting, controlled>>

\* cache.addAll(STATIC_RESOURCES) of listener l: every resource is fetched
\* with an ok status and all are stored, or it rejects and stores nothing
InstallAddAll(e, l) ==
    /\ evs[e].kind = "install"
    /\ evs[e][l] = "addAll"
    /\ \/ /\ store' = AddedAll(store, CACHE_NAME, StaticUrls, server)
          /\ evs' = [evs EXCEPT ![e][l] = IF l = "l1" THEN "broadcast" ELSE "skipWaiting"]
       \/ \* a fetch failed or answered with a status that is not ok
          /\ evs' = [evs EXCEPT ![e][l] = "failed"]
          /\ UNCHANGED store
       \/ \* the store failed
          /\ evs' = [evs EXCEPT ![e][l] = "failed", ![e].fault = TRUE]
          /\ UNCHANGED store
    /\ UNCHANGED <<pureVars, server, now, phase, skipWaiting, controlled>>

\* lines 34-42: broadcastToClients(SW_INSTALLED)
InstallBroadcast(e) ==
    /\ evs[e].kind = "install"
    /\ evs[e].l1 = "broadcast"
    /\ evs' = [evs EXCEPT ![e].l1 = "done",
                          ![e].posted = @ \o Broadcast("SW_INSTALLED")]
    /\ UNCHANGED <<pureVars, store, server, now, phase, skipWaiting, controlled>>

\* lines 721-724: self.skipWaiting() after the cache is filled
InstallSkipWaiting(e) ==
    /\ evs[e].kind = "install"
    /\ evs[e].l2 = "skipWaiting"
    /\ skipWaiting' = TRUE
    /\ evs' = [evs EXCEPT ![e].l2 = "done"]
    /\ UNCHANGED <<pureVars, store, server, now, phase, controlled>>

\* an install that succeeds whatever became of the waitUntil promises
InstallOutcome_ignored(l1, l2) == "installed"

\* the worker is installed when both waitUntil promises resolved, and
\* discarded when one rejected (the catch of lines 43-46 / 725-728 rethrows)
InstallOutcome(l1, l2) ==
    IF l1 = "done" /\ l2 = "done" THEN "installed" ELSE "redundant"

\* both waitUntil promises are settled
InstallSettle(e) ==
    /\ evs[e].kind = "install"
    /\ ~evs[e].settled
    /\ evs[e].l1 \in {"done", "failed"}
    /\ evs[e].l2 \in {"done", "failed"}
    /\ evs' = [evs EXCEPT ![e].settled = TRUE]
    /\ phase' = InstallOutcome(evs[e].l1, evs[e].l2)
    /\ UNCHANGED <<pureVars, store, server, now, skipWaiting, controlled>>


(***************************************************************************)
(* activate (both listeners: lines 51-79 with cleanupOldCaches at 467-480, *)
(* and lines 733-768).                                                     *)
(*   a1: Promise.all([cleanupOldCaches(), clients.claim(),                 *)
(*        initializeAppState()]).then(broadcast SW_ACTIVATED).catch(log)   *)
(*   a2: Promise.all([caches.keys().then(delete the old ones),             *)
(*        clients.claim()]).then(post SW_UPDATED).catch(log)               *)
(* A chain holds the state of its sweep (keys, deleting, resolved or       *)
(* rejected), of its claim, and of the chain after Promise.all (all,       *)
(* done or logged). dels holds the caches.delete(name) calls made and not  *)
(* yet settled; they settle in any order, also after a rejection.          *)
(***************************************************************************)
NewSweep == [sweep |-> "keys", claim |-> "pending", pc |-> "all"]

DispatchActivate(e) ==
    /\ phase \in {"installed", "activated"}
    /\ Settled(evs[e])
    /\ phase' = IF phase = "installed" THEN "activating" ELSE phase
    /\ evs' = [evs EXCEPT ![e] =
                 [kind |-> "activate", a1 |-> NewSweep, a2 |-> NewSweep, dels |-> {},
                  fault |-> FALSE, posted |-> <<>>, settled |-> FALSE,
                  pre |-> store,
                  \* this activate follows an activate that completed
                  again |-> evs[e].kind = "activate" /\ ~evs[e].fault]]
    /\ UNCHANGED <<pureVars, store, server, now, skipWaiting, controlled>>

\* caches.keys() of chain c resolves (and the filter and the delete calls of
\* lines 469-476 / 740-745 run), or rejects
ActivateKeys(e, c) ==
    /\ evs[e].kind = "activate"
    /\ evs[e][c].sweep = "keys"
    /\ \/ LET old == OldCaches(DOMAIN store)
          IN  evs' = [evs EXCEPT ![e][c].sweep = IF old = {} THEN "resolved" ELSE "deleting",
                                 ![e].dels = @ \cup {<<c, n>> : n \in old}]
       \/ evs' = [evs EXCEPT ![e][c].sweep = "rejected", ![e].fault = TRUE]
    /\ UNCHANGED <<pureVars, store, server, now, phase, skipWaiting, controlled>>

\* one caches.delete(name) of chain c resolves or rejects
ActivateDelete(e, c, name) ==
    /\ evs[e].kind = "activate"
    /\ <<c, name>> \in evs[e].dels
    /\ LET left == evs[e].dels \ {<<c, name>>}
           last == \A d \in left : d[1] # c
       IN  \/ /\ store' = Deleted(store, name)
              /\ evs' = [evs EXCEPT ![e].dels = left,
                                    ![e][c].sweep = IF @ = "deleting" /\ last
                                                    THEN "resolved" ELSE @]
           \/ /\ evs' = [evs EXCEPT ![e].dels = left, ![e].fault = TRUE,
                                    ![e][c].sweep = "rejected"]
              /\ UNCHANGED store
    /\ UNCHANGED <<pureVars, server, now, phase, skipWaiting, controlled>>

\* self.clients.claim() of chain c resolves, and every client is controlled
\* by this worker, or rejects
ActivateClaim(e, c) ==
    /\ evs[e].kind = "activate"
    /\ evs[e][c].claim = "pending"
    /\ \/ /\ controlled' = ClientSet
          /\ evs' = [evs EXCEPT ![e][c].claim = "ok"]
       \/ /\ evs' = [evs EXCEPT ![e][c].claim = "rejected", ![e].fault = TRUE]
          /\ UNCHANGED controlled
    /\ UNCHANGED <<pureVars, store, server, now, phase, skipWaiting>>

\* Promise.all of chain c resolved: the clients are notified (lines 65-74,
\* 750-762)
ActivateNotify(e, c) ==
    /\ evs[e].kind = "activate"
    /\ evs[e][c].pc = "all"
    /\ evs[e][c].sweep = "resolved"
    /\ evs[e][c].claim = "ok"
    /\ evs' = [evs EXCEPT ![e][c].pc = "done",
                          ![e].posted = @ \o Broadcast(IF c = "a1" THEN "SW_ACTIVATED"
                                                       ELSE "SW_UPDATED")]
    /\ UNCHANGED <<pureVars, store, server, now, phase, skipWaiting, controlled>>

\* Promise.all of chain c rejected: the error is logged (lines 75-77, 764-766)
ActivateLog(e, c) ==
    /\ evs[e].kind = "activate"
    /\ evs[e][c].pc = "all"
    /\ evs[e][c].sweep = "rejected" \/ evs[e][c].claim = "rejected"
    /\ evs' = [evs EXCEPT ![e][c].pc = "logged"]
    /\ UNCHANGED <<pureVars, store, server, now, phase, skipWaiting, controlled>>

\* an activate whose waitUntil promise rejects when a sub-step failed, which
\* discards the worker
ActivateSettle_propagates(e) ==
    /\ evs[e].kind = "activate"
    /\ ~evs[e].settled
    /\ evs[e].a1.pc \in {"done", "logged"}
    /\ evs[e].a2.pc \in {"done", "logged"}
    /\ evs' = [evs EXCEPT ![e].settled = TRUE]
    /\ phase' = IF evs[e].fault THEN "redundant" ELSE "activated"
    /\ UNCHANGED <<pureVars, store, server, now, skipWaiting, controlled>>

\* both waitUntil promises are settled
ActivateSettle(e) ==
    /\ evs[e].kind = "activate"
    /\ ~evs[e].settled
    /\ evs[e].a1.pc \in {"done", "logged"}
    /\ evs[e].a2.pc \in {"done", "logged"}
    /\ evs' = [evs EXCEPT ![e].settled = TRUE]
    /\ phase' = "activated"
    /\ UNCHANGED <<pureVars, store, server, now, skipWaiting, controlled>>


(***************************************************************************)
(* message CLEAR_CACHE (both listeners: lines 333-340 with                 *)
(* clearApplicationCaches at 539-553, and lines 872-879 with               *)
(* clearAllCaches at 923-937). Each listener snapshots caches.keys(),      *)
(* deletes the application's caches and posts CACHE_CLEARED with the       *)
(* result to the port of the message: true, or false when caches.keys()    *)
(* or a delete rejected.                                                   *)
(***************************************************************************)
NewClear == [sweep |-> "keys", pc |-> "await"]

DispatchClearCache(e, hasPort) ==
    /\ phase \in {"installed", "activated"}
    /\ Settled(evs[e])
    /\ evs' = [evs EXCEPT ![e] =
                 [kind |-> "message", type |-> "CLEAR_CACHE", hasPort |-> hasPort,
                  m1 |-> NewClear, m2 |-> NewClear, dels |-> {},
                  fault |-> FALSE, posted |-> <<>>, settled |-> FALSE, pre |-> store]]
    /\ UNCHANGED <<pureVars, store, server, now, phase, skipWaiting, controlled>>

ClearKeys(e, c) ==
    /\ evs[e].kind = "message"
    /\ evs[e].type = "CLEAR_CACHE"
    /\ evs[e][c].sweep = "keys"
    /\ \/ LET app == AppCaches(DOMAIN store)
          IN  evs' = [evs EXCEPT ![e][c].sweep = IF app = {} THEN "resolved" ELSE "deleting",
                                 ![e].dels = @ \cup {<<c, n>> : n \in app}]
       \/ evs' = [evs EXCEPT ![e][c].sweep = "rejected", ![e].fault = TRUE]
    /\ UNCHANGED <<pureVars, store, server, now, phase, skipWaiting, controlled>>

ClearDelete(e, c, name) ==
    /\ evs[e].kind = "message"
    /\ evs[e].type = "CLEAR_CACHE"
    /\ <<c, name>> \in evs[e].dels
    /\ LET left == evs[e].dels \ {<<c, name>>}
           last == \A d \in left : d[1] # c
       IN  \/ /\ store' = Deleted(store, name)
              /\ evs' = [evs EXCEPT ![e].dels = left,
                                    ![e][c].sweep = IF @ = "deleting" /\ last
                                                    THEN "resolved" ELSE @]
           \/ /\ evs' = [evs EXCEPT ![e].dels = left, ![e].fault = TRUE,
                                    ![e][c].sweep = "rejected"]
              /\ UNCHANGED store
    /\ UNCHANGED <<pureVars, server, now, phase, skipWaiting, controlled>>

\* what clearApplicationCaches / clearAllCaches return: line 548 / 932 after
\* the awaited Promise.all, line 551 / 935 in the catch
ClearResult(sweep) == sweep = "resolved"

\* the result is posted to event.ports[0]: respondToClient (lines 504-508)
\* posts only when there is a port; line 874 throws when there is none
ClearReply(e, c) ==
    /\ evs[e].kind = "message"
    /\ evs[e].type = "CLEAR_CACHE"
    /\ evs[e][c].pc = "await"
    /\ evs[e][c].sweep \in {"resolved", "rejected"}
    /\ evs' = [evs EXCEPT
                 ![e][c].pc = IF evs[e].hasPort THEN "done"
                              ELSE IF c = "m1" THEN "done" ELSE "threw",
                 ![e].posted = IF evs[e].hasPort
                               THEN Append(@, [to |-> "port", type |-> "CACHE_CLEARED",
                                               success |-> ClearResult(evs[e][c].sweep)])
                               ELSE @]
    /\ UNCHANGED <<pureVars, store, server, now, phase, skipWaiting, controlled>>

ClearSettle(e) ==
    /\ evs[e].kind = "message"
    /\ evs[e].type = "CLEAR_CACHE"
    /\ ~evs[e].settled
    /\ evs[e].m1.pc # "await"
    /\ evs[e].m2.pc # "await"
    /\ evs' = [evs EXCEPT ![e].settled = TRUE]
    /\ UNCHANGED <<pureVars, store, server, now, phase, skipWaiting, controlled>>


(***************************************************************************)
(* message GET_CACHE_STATUS (both listeners: lines 325-331 and 863-870).   *)
(* Both call getCacheStatus, which is the declaration of lines 896-920:    *)
(* it counts every cache of the origin, with no test of the name.          *)
(*   g1: await getCacheStatus(), then respondToClient                      *)
(*   g2: getCacheStatus().then(post to event.ports[0])                     *)
(***************************************************************************)
NewStatus == [pc |-> "keys", names |-> {}, status |-> [error |-> FALSE, totalCaches |-> 0]]

\* the names getCacheStatus reports on (lines 898-900, 912)
StatusNames(names) == names

\* caches.open(name) for every name of a set
OpenedAll(st, names) ==
    [n \in DOMAIN st \cup names |-> IF n \in DOMAIN st THEN st[n] ELSE EmptyCache]

\* what getCacheStatus returns (lines 911-915), or line 918 in the catch
CacheStatus(st, names) ==
    [error |-> FALSE, totalCaches |-> Cardinality(names),
     currentCache |-> CACHE_NAME,
     caches |-> [n \in names |-> Cardinality(DOMAIN st[n])]]

DispatchGetCacheStatus(e, hasPort) ==
    /\ phase \in {"installed", "activated"}
    /\ Settled(evs[e])
    /\ evs' = [evs EXCEPT ![e] =
                 [kind |-> "message", type |-> "GET_CACHE_STATUS", hasPort |-> hasPort,
                  g1 |-> NewStatus, g2 |-> NewStatus, dels |-> {},
                  fault |-> FALSE, posted |-> <<>>, settled |-> FALSE, pre |-> store,
                  afterClear |-> /\ evs[e].kind = "message"
                                 /\ evs[e].type = "CLEAR_CACHE"
                                 /\ ~evs[e].fault]]
    /\ UNCHANGED <<pureVars, store, server, now, phase, skipWaiting, controlled>>

\* getCacheStatus 898: await caches.keys()
StatusKeys(e, c) ==
    /\ evs[e].kind = "message"
    /\ evs[e].type = "GET_CACHE_STATUS"
    /\ evs[e][c].pc = "keys"
    /\ \/ evs' = [evs EXCEPT ![e][c].pc = "details",
                             ![e][c].names = StatusNames(DOMAIN store)]
       \/ evs' = [evs EXCEPT ![e][c].pc = "reply", ![e].fault = TRUE,
                             ![e][c].status = [error |-> TRUE, totalCaches |-> 0]]
    /\ UNCHANGED <<pureVars, store, server, now, phase, skipWaiting, controlled>>

\* getCacheStatus 899-915: caches.open and cache.keys for every name, the
\* promises awaited together, then the object returned
StatusDetails(e, c) ==
    /\ evs[e].kind = "message"
    /\ evs[e].type = "GET_CACHE_STATUS"
    /\ evs[e][c].pc = "details"
    /\ \/ /\ store' = OpenedAll(store, evs[e][c].names)
          /\ evs' = [evs EXCEPT ![e][c].pc = "reply",
                                ![e][c].status = CacheStatus(store', evs[e][c].names)]
       \/ /\ evs' = [evs EXCEPT ![e][c].pc = "reply", ![e].fault = TRUE,
                                ![e][c].status = [error |-> TRUE, totalCaches |-> 0]]
          /\ UNCHANGED store
    /\ UNCHANGED <<pureVars, server, now, phase, skipWaiting, controlled>>

\* the status is posted to event.ports[0]: respondToClient (504-508) posts
\* only when there is a port; line 865 throws when there is none
StatusReply(e, c) ==
    /\ evs[e].kind = "message"
    /\ evs[e].type = "GET_CACHE_STATUS"
    /\ evs[e][c].pc = "reply"
    /\ evs' = [evs EXCEPT
                 ![e][c].pc = IF evs[e].hasPort \/ c = "g1" THEN "done" ELSE "threw",
                 ![e].posted = IF evs[e].hasPort
                               THEN Append(@, [to |-> "port", type |-> "CACHE_STATUS",
                                               status |-> evs[e][c].status])
                               ELSE @]
    /\ UNCHANGED <<pureVars, store, server, now, phase, skipWaiting, controlled>>

StatusSettle(e) ==
    /\ evs[e].kind = "message"
    /\ evs[e].type = "GET_CACHE_STATUS"
    /\ ~evs[e].settled
    /\ evs[e].g1.pc \in {"done", "threw"}
    /\ evs[e].g2.pc \in {"done", "threw"}
    /\ evs' = [evs EXCEPT ![e].settled = TRUE]
    /\ UNCHANGED <<pureVars, store, server, now, phase, skipWaiting, controlled>>

\* the server deploys a new version of its content
Deploy ==
    /\ server < MaxVersion
    /\ server' = server + 1
    /\ UNCHANGED <<pureVars, store, now, phase, skipWaiting, controlled, evs>>

(***************************************************************************)
(* fetch. Both listeners run for every request.                            *)
(*                                                                         *)
(* Chain s is the first listener's (lines 82-100):                         *)
(*   respondWith(executeStrategy(strategy, request).catch(handleFetchError))*)
(* Chain w is the second listener's (lines 771-813):                       *)
(*   caches.match(request).then(cached or fetchAndCache).catch(fallback)   *)
(* Its promise chain is built before event.respondWith is called, so it    *)
(* runs although respondWith throws when the first listener has answered.  *)
(*                                                                         *)
(* fetchAndCache is the declaration of lines 816-837, with one parameter.  *)
(* networkFirst, cacheFirst and staleWhileRevalidate call it as            *)
(* fetchAndCache(cache, request): its request is then the Cache object,    *)
(* which fetch and cache.put read as the string "[object Cache]", a URL    *)
(* relative to the worker's.                                               *)
(***************************************************************************)
CacheObjectUrl == SelfUrl(<<"/", "[object%20Cache]">>)

NoEntry == [kind |-> "none"]
Pending == [kind |-> "pending"]
Undefined == [kind |-> "undefined"]
Resolved(response, src) == [kind |-> "resolved", resp |-> response, src |-> src]
Rejected(why) == [kind |-> "rejected", why |-> why]

\* cache.match(url) on a cache opened under name
CacheMatch(st, name, url) ==
    IF name \in DOMAIN st /\ url \in DOMAIN st[name]
    THEN [kind |-> "entry", resp |-> st[name][url]]
    ELSE NoEntry

\* caches.match(url): the first cache, in the order of creation, with a match
CacheOrder == <<OldV2, Profile, Foreign, CACHE_NAME>>

CachesMatch(st, url) ==
    LET hits == {i \in 1..Len(CacheOrder) : CacheMatch(st, CacheOrder[i], url).kind = "entry"}
    IN  IF hits = {} THEN NoEntry
        ELSE CacheMatch(st, CacheOrder[CHOOSE i \in hits : \A j \in hits : i <= j], url)

isOriginAllowed(url) == Origin(url) = SelfOrigin

\* isApiRequest(url): the result, and the lastIndex of the patterns after it
isApiRequest(url, li) ==
    LET a == RegExpTest(CACHE_PATTERNS.api, li.api, Href(url))
        t == RegExpTest(CACHE_PATTERNS.telemetry, li.telemetry, Href(url))
    IN  IF a.ok THEN [ok |-> TRUE, li |-> [li EXCEPT !.api = a.li]]
        ELSE [ok |-> t.ok, li |-> [li EXCEPT !.api = a.li, !.telemetry = t.li]]

\* line 87: whether the first listener handles the request
Admitted(request, li) ==
    IF request.method # "GET" THEN [ok |-> FALSE, li |-> li]
    ELSE IF isOriginAllowed(request.url) THEN [ok |-> TRUE, li |-> li]
    ELSE isApiRequest(request.url, li)

\* lines 773-780: whether the second listener handles the request
AdmittedSecond(request) ==
    /\ request.method = "GET"
    /\ StartsWith(Href(request.url), SelfOrigin)

\* the responses handleFetchError and the second listener's catch make up
OfflinePage(url) ==
    [status |-> 503, body |-> [kind |-> "offline-page", url |-> url, version |-> 0],
     type |-> "default", headers |-> [x \in {"content-type"} |-> <<"text/html">>]]

ErrorJson(url) ==
    [status |-> 503, body |-> [kind |-> "error-json", url |-> url, version |-> 0],
     type |-> "default", headers |-> [x \in {"content-type"} |-> <<"application/json">>]]

OfflineText(url) ==
    [status |-> 503, body |-> [kind |-> "offline-text", url |-> url, version |-> 0],
     type |-> "default", headers |-> [x \in {"content-type"} |-> <<"text/plain">>]]

NoDelivery == [kind |-> "none"]
NetworkError == [kind |-> "network-error"]
PassThrough == [kind |-> "not-intercepted"]

\* what respondWith(promise) delivers when the promise settles with res
Deliver(ev, c, res) ==
    IF ev.responder # c THEN ev
    ELSE [ev EXCEPT !.delivered =
            IF res.kind = "resolved"
            THEN [kind |-> "response", resp |-> res.resp, src |-> res.src]
            ELSE NetworkError]

\* respondWith given the promise of executeStrategy without the catch
FinishStrategy_propagates(ev, res) ==
    Deliver([ev EXCEPT !.s.result = res, !.s.pc = "done"], "s", res)

\* executeStrategy settles with res: a rejection goes to handleFetchError
\* (lines 95-98, 241-298), which looks up the root document for a document
\* request and makes up a 503 response for any other
FinishStrategy(ev, res) ==
    LET ev1 == [ev EXCEPT !.s.result = res]
    IN  IF res.kind # "rejected"
        THEN Deliver([ev1 EXCEPT !.s.pc = "done"], "s", res)
        ELSE IF ev.request.destination = "document"
        THEN [ev1 EXCEPT !.s.pc = "error-match"]
        ELSE Deliver([ev1 EXCEPT !.s.pc = "done"], "s",
                     Resolved(ErrorJson(ev.request.url), "fallback"))

\* the second listener's chain settles with res
FinishWorker(ev, res) ==
    Deliver([ev EXCEPT !.w.pc = "done", !.w.result = res], "w", res)

\* the second listener's catch (lines 797-811)
WorkerCatch(ev) ==
    IF ev.request.destination = "document"
    THEN [ev EXCEPT !.w.pc = "error-match"]
    ELSE FinishWorker(ev, Resolved(OfflineText(ev.request.url), "fallback"))

NewChain(on, pc) == [pc |-> IF on THEN pc ELSE "off", cached |-> NoEntry, result |-> Pending]
NewFetchAndCache == [pc |-> "idle", resp |-> NoEntry, stored |-> FALSE, outcome |-> Pending]

\* every fetch the event made was answered with status 200
AnsweredOk(ev) ==
    /\ ev.sfc.pc # "idle" \/ ev.wfc.pc # "idle"
    /\ \A fc \in {ev.sfc, ev.wfc} :
          fc.pc # "idle" => fc.outcome.kind = "resolved" /\ fc.outcome.resp.status = 200

\* no cache held an entry for the request when the event looked it up
\* (caches.match of line 783 found nothing)
Fresh(ev) == ev.w.pc = "done" /\ ev.w.cached.kind = "none"

\* what the event before answered, when it was the same request, for an image
\* that no cache had, answered by the network with status 200
FirstAnswer(ev, request) ==
    IF /\ ev.kind = "fetch"
       /\ ev.request = request
       /\ ev.request.destination = "image"
       /\ Fresh(ev)
       /\ ~ev.fault
       /\ ev.delivered.kind = "response"
       /\ AnsweredOk(ev)
    THEN [kind |-> "first", body |-> ev.delivered.resp.body]
    ELSE [kind |-> "none"]

DispatchFetch(e, request) ==
    /\ phase = "activated"
    /\ Settled(evs[e])
    /\ LET a == Admitted(request, lastIndex)
           g == IF a.ok THEN getCacheStrategy(request, a.li)
                ELSE [strategy |-> "none", li |-> a.li]
           second == AdmittedSecond(request)
           who == IF a.ok THEN "s" ELSE IF second THEN "w" ELSE "none"
       IN  /\ lastIndex' = g.li
           /\ evs' = [evs EXCEPT ![e] =
                 [kind |-> "fetch", request |-> request, strategy |-> g.strategy,
                  responder |-> who,
                  s |-> NewChain(a.ok, "open"), sfc |-> NewFetchAndCache,
                  w |-> NewChain(second, "match"), wfc |-> NewFetchAndCache,
                  delivered |-> IF who = "none" THEN PassThrough ELSE NoDelivery,
                  unhandled |-> FALSE,
                  dels |-> {}, fault |-> FALSE, settled |-> FALSE,
                  prev |-> FirstAnswer(evs[e], request), pre |-> store]]
    /\ UNCHANGED <<probe, store, server, now, phase, skipWaiting, controlled>>

\* what fetch can settle with: a response of the server, or a rejection
Statuses == {200, 404}
FetchOutcomes(url) ==
    {Resolved(NetworkResponse(url, st, server), "network") : st \in Statuses}
        \cup {Rejected("network")}

\* the request fetchAndCache receives from the chain that calls it
FetchAndCacheUrl(ev, c) == IF c = "s" THEN CacheObjectUrl ELSE ev.request.url

FcOf(ev, c) == IF c = "s" THEN ev.sfc ELSE ev.wfc
WithFc(ev, c, fc) == IF c = "s" THEN [ev EXCEPT !.sfc = fc] ELSE [ev EXCEPT !.wfc = fc]

\* networkFirst that turns to the cache for a response that is not a 200
StrategyAfter_statusFallback(ev, res) ==
    IF ev.strategy = "network-first"
    THEN (IF res.kind = "resolved" /\ res.resp.status = 200 THEN FinishStrategy(ev, res)
          ELSE [ev EXCEPT !.s.pc = "fallback"])
    ELSE IF ev.strategy = "stale-while-revalidate"
    THEN (IF res.kind = "resolved" THEN FinishStrategy(ev, res)
          ELSE FinishStrategy(ev, Undefined))
    ELSE IF res.kind = "resolved" THEN FinishStrategy(ev, res)
    ELSE IF ev.s.cached.kind = "entry"
    THEN FinishStrategy(ev, Resolved(ev.s.cached.resp, "cache"))
    ELSE FinishStrategy(ev, res)

\* networkFirst that gives up when the network fails
StrategyAfter_noFallback(ev, res) ==
    IF ev.strategy = "network-first" THEN FinishStrategy(ev, res)
    ELSE IF ev.strategy = "stale-while-revalidate"
    THEN (IF res.kind = "resolved" THEN FinishStrategy(ev, res)
          ELSE FinishStrategy(ev, Undefined))
    ELSE IF res.kind = "resolved" THEN FinishStrategy(ev, res)
    ELSE IF ev.s.cached.kind = "entry"
    THEN FinishStrategy(ev, Resolved(ev.s.cached.resp, "cache"))
    ELSE FinishStrategy(ev, res)

\* cacheFirst that gives up when the network fails
StrategyAfter_noExpired(ev, res) ==
    IF ev.strategy = "network-first"
    THEN (IF res.kind = "resolved" THEN FinishStrategy(ev, res)
          ELSE [ev EXCEPT !.s.pc = "fallback"])
    ELSE IF ev.strategy = "stale-while-revalidate"
    THEN (IF res.kind = "resolved" THEN FinishStrategy(ev, res)
          ELSE FinishStrategy(ev, Undefined))
    ELSE FinishStrategy(ev, res)

\* the strategy that awaits fetchAndCache goes on when it settles with res:
\* networkFirst (159-169), cacheFirst (179-187), staleWhileRevalidate (195-204)
StrategyAfter(ev, res) ==
    IF ev.strategy = "network-first"
    THEN (IF res.kind = "resolved" THEN FinishStrategy(ev, res)
          ELSE [ev EXCEPT !.s.pc = "fallback"])
    ELSE IF ev.strategy = "stale-while-revalidate"
    THEN (IF res.kind = "resolved" THEN FinishStrategy(ev, res)
          ELSE FinishStrategy(ev, Undefined))
    ELSE IF res.kind = "resolved" THEN FinishStrategy(ev, res)
    ELSE IF ev.s.cached.kind = "entry"
    THEN FinishStrategy(ev, Resolved(ev.s.cached.resp, "cache"))
    ELSE FinishStrategy(ev, res)

\* the second listener goes on when the fetchAndCache it returned settles
WorkerAfter(ev, res) ==
    IF res.kind = "resolved" THEN FinishWorker(ev, res) ELSE WorkerCatch(ev)

\* fetchAndCache whose rejection, the strategy having returned, goes to the
\* caller of the strategy
FetchAndCacheSettled_escapes(ev, c, res) ==
    LET ev1 == WithFc(ev, c, [FcOf(ev, c) EXCEPT
                     !.pc = IF res.kind = "resolved" THEN "resolved" ELSE "rejected",
                     !.outcome = res])
        ev2 == [ev1 EXCEPT !.fault = @ \/ (res.kind = "rejected" /\ res.why = "store")]
    IN  IF c = "s"
        THEN (IF ev.s.pc = "await" THEN StrategyAfter(ev2, res)
              ELSE IF res.kind = "rejected"
              THEN [ev2 EXCEPT !.s.result = res, !.delivered = NetworkError]
              ELSE ev2)
        ELSE (IF ev.w.pc = "await" THEN WorkerAfter(ev2, res)
              ELSE [ev2 EXCEPT !.unhandled = @ \/ res.kind = "rejected"])

\* fetchAndCache of chain c settles with res
FetchAndCacheSettled(ev, c, res) ==
    LET ev1 == WithFc(ev, c, [FcOf(ev, c) EXCEPT
                     !.pc = IF res.kind = "resolved" THEN "resolved" ELSE "rejected",
                     !.outcome = res])
        ev2 == [ev1 EXCEPT !.fault = @ \/ (res.kind = "rejected" /\ res.why = "store")]
    IN  IF c = "s"
        THEN (IF ev.s.pc = "await" THEN StrategyAfter(ev2, res) ELSE ev2)
        ELSE (IF ev.w.pc = "await" THEN WorkerAfter(ev2, res)
              ELSE [ev2 EXCEPT !.unhandled = @ \/ res.kind = "rejected"])

\* the switch with network-only falling to the default case
ExecuteSwitch_default(ev) ==
    IF ev.strategy = "network-first"
    THEN [ev EXCEPT !.s.pc = "await", !.sfc.pc = "fetch"]
    ELSE [ev EXCEPT !.s.pc = "match"]

\* executeStrategy, lines 139-154: the switch on the strategy. networkFirst
\* calls fetchAndCache at once; cacheFirst and staleWhileRevalidate look the
\* request up first; network-only fetches
ExecuteSwitch(ev) ==
    IF ev.strategy = "network-only" THEN [ev EXCEPT !.s.pc = "net"]
    ELSE IF ev.strategy = "network-first"
    THEN [ev EXCEPT !.s.pc = "await", !.sfc.pc = "fetch"]
    ELSE [ev EXCEPT !.s.pc = "match"]

\* executeStrategy, line 137: await caches.open(CACHE_NAME), then the switch
StrategyOpen(e) ==
    /\ evs[e].kind = "fetch"
    /\ evs[e].s.pc = "open"
    /\ \/ /\ store' = Opened(store, CACHE_NAME)
          /\ evs' = [evs EXCEPT ![e] = ExecuteSwitch(@)]
       \/ /\ evs' = [evs EXCEPT ![e] =
                FinishStrategy([@ EXCEPT !.fault = TRUE], Rejected("store"))]
          /\ UNCHANGED store
    /\ UNCHANGED <<lastIndex, probe, server, now, phase, skipWaiting, controlled>>

\* staleWhileRevalidate that waits for the network although it has an entry
StaleWhileRevalidateReturn_awaited(started, cached) == started

\* staleWhileRevalidate 199-205, fetchAndCache being called: the entry is
\* returned when there is one, the promise of the fetch otherwise
StaleWhileRevalidateReturn(started, cached) ==
    IF cached.kind = "entry"
    THEN FinishStrategy(started, Resolved(cached.resp, "cache"))
    ELSE started

\* cacheFirst that returns a fresh entry and fetches it again all the same
CacheFirstReturn_revalidates(ev, started, cached, dateNow) ==
    IF cached.kind = "entry" /\ ~isExpired(cached.resp, dateNow)
    THEN FinishStrategy(started, Resolved(cached.resp, "cache"))
    ELSE started

\* cacheFirst 175-180: an entry that is not expired is returned; otherwise
\* fetchAndCache is called and awaited
CacheFirstReturn(ev, started, cached, dateNow) ==
    IF cached.kind = "entry" /\ ~isExpired(cached.resp, dateNow)
    THEN FinishStrategy(ev, Resolved(cached.resp, "cache"))
    ELSE started

\* cacheFirst 174-180 and staleWhileRevalidate 192-204: await cache.match,
\* then the call of fetchAndCache and, with an entry to return, the return
StrategyMatch(e) ==
    /\ evs[e].kind = "fetch"
    /\ evs[e].s.pc = "match"
    /\ LET ev == evs[e]
           cached == CacheMatch(store, CACHE_NAME, ev.request.url)
           ev1 == [ev EXCEPT !.s.cached = cached]
           started == [ev1 EXCEPT !.sfc.pc = "fetch", !.s.pc = "await"]
       IN  \/ evs' = [evs EXCEPT ![e] =
                 IF ev.strategy = "stale-while-revalidate"
                 THEN StaleWhileRevalidateReturn(started, cached)
                 ELSE CacheFirstReturn(ev1, started, cached, now)]
           \/ evs' = [evs EXCEPT ![e] =
                 FinishStrategy([ev EXCEPT !.fault = TRUE], Rejected("store"))]
    /\ UNCHANGED <<lastIndex, probe, store, server, now, phase, skipWaiting, controlled>>

\* executeStrategy, line 150: network-only returns fetch(request)
NetworkOnly(e) ==
    /\ evs[e].kind = "fetch"
    /\ evs[e].s.pc = "net"
    /\ \E res \in FetchOutcomes(evs[e].request.url) :
          evs' = [evs EXCEPT ![e] = FinishStrategy(@, res)]
    /\ UNCHANGED <<lastIndex, probe, store, server, now, phase, skipWaiting, controlled>>

\* networkFirst 162-168: after the failure, await cache.match(request)
StrategyFallback(e) ==
    /\ evs[e].kind = "fetch"
    /\ evs[e].s.pc = "fallback"
    /\ LET ev == evs[e]
           cached == CacheMatch(store, CACHE_NAME, ev.request.url)
           ev1 == [ev EXCEPT !.s.cached = cached]
       IN  \/ evs' = [evs EXCEPT ![e] =
                 IF cached.kind = "entry"
                 THEN FinishStrategy(ev1, Resolved(cached.resp, "cache"))
                 ELSE FinishStrategy(ev1, ev.sfc.outcome)]
           \/ evs' = [evs EXCEPT ![e] =
                 FinishStrategy([ev EXCEPT !.fault = TRUE], Rejected("store"))]
    /\ UNCHANGED <<lastIndex, probe, store, server, now, phase, skipWaiting, controlled>>

\* fetchAndCache 818-823: await fetch(request), then the test of the response
FetchAndCacheFetch(e, c) ==
    /\ evs[e].kind = "fetch"
    /\ FcOf(evs[e], c).pc = "fetch"
    /\ \E res \in FetchOutcomes(FetchAndCacheUrl(evs[e], c)) :
          evs' = [evs EXCEPT ![e] =
             IF res.kind = "resolved" /\ res.resp.status = 200 /\ res.resp.type = "basic"
             THEN WithFc(@, c, [FcOf(@, c) EXCEPT !.pc = "open", !.resp = res.resp])
             ELSE FetchAndCacheSettled(
                     IF res.kind = "resolved"
                     THEN WithFc(@, c, [FcOf(@, c) EXCEPT !.resp = res.resp]) ELSE @,
                     c, res)]
    /\ UNCHANGED <<lastIndex, probe, store, server, now, phase, skipWaiting, controlled>>

\* fetchAndCache 829: await caches.open(CACHE_NAME)
FetchAndCacheOpen(e, c) ==
    /\ evs[e].kind = "fetch"
    /\ FcOf(evs[e], c).pc = "open"
    /\ \/ /\ store' = Opened(store, CACHE_NAME)
          /\ evs' = [evs EXCEPT ![e] = WithFc(@, c, [FcOf(@, c) EXCEPT !.pc = "put"])]
       \/ /\ evs' = [evs EXCEPT ![e] = FetchAndCacheSettled(@, c, Rejected("store"))]
          /\ UNCHANGED store
    /\ UNCHANGED <<lastIndex, probe, server, now, phase, skipWaiting, controlled>>

\* fetchAndCache 830-832: await cache.put(request, responseToCache), return
FetchAndCachePut(e, c) ==
    /\ evs[e].kind = "fetch"
    /\ FcOf(evs[e], c).pc = "put"
    /\ LET fc == FcOf(evs[e], c)
       IN  \/ /\ store' = Written(store, CACHE_NAME, FetchAndCacheUrl(evs[e], c), fc.resp)
              /\ evs' = [evs EXCEPT ![e] =
                    FetchAndCacheSettled(WithFc(@, c, [fc EXCEPT !.stored = TRUE]),
                                         c, Resolved(fc.resp, "network"))]
           \/ /\ evs' = [evs EXCEPT ![e] = FetchAndCacheSettled(@, c, Rejected("store"))]
              /\ UNCHANGED store
    /\ UNCHANGED <<lastIndex, probe, server, now, phase, skipWaiting, controlled>>

\* second listener 783-795: caches.match(request), then the cached response,
\* with a fetchAndCache nobody awaits for a document, or fetchAndCache
WorkerMatch(e) ==
    /\ evs[e].kind = "fetch"
    /\ evs[e].w.pc = "match"
    /\ LET ev == evs[e]
           cached == CachesMatch(store, ev.request.url)
           ev1 == [ev EXCEPT !.w.cached = cached]
       IN  \/ evs' = [evs EXCEPT ![e] =
                 IF cached.kind = "entry"
                 THEN FinishWorker(
                        IF ev.request.destination = "document"
                        THEN [ev1 EXCEPT !.wfc.pc = "fetch"] ELSE ev1,
                        Resolved(cached.resp, "cache"))
                 ELSE [ev1 EXCEPT !.wfc.pc = "fetch", !.w.pc = "await"]]
           \/ evs' = [evs EXCEPT ![e] = WorkerCatch([ev EXCEPT !.fault = TRUE])]
    /\ UNCHANGED <<lastIndex, probe, store, server, now, phase, skipWaiting, controlled>>

\* caches.match('/index.html') of handleFetchError (244-283) for chain s and
\* of the second listener's catch (800) for chain w
ErrorMatch(e, c) ==
    /\ evs[e].kind = "fetch"
    /\ (IF c = "s" THEN evs[e].s.pc ELSE evs[e].w.pc) = "error-match"
    /\ LET ev == evs[e]
           cached == CachesMatch(store, SelfUrl(<<"/", "index", ".html">>))
           hit == Resolved(IF cached.kind = "entry" THEN cached.resp
                           ELSE OfflinePage(ev.request.url),
                           IF cached.kind = "entry" THEN "cache" ELSE "fallback")
       IN  \/ evs' = [evs EXCEPT ![e] =
                 IF c = "s"
                 THEN Deliver([ev EXCEPT !.s.pc = "done"], "s", hit)
                 ELSE FinishWorker(ev, IF cached.kind = "entry" THEN hit ELSE Undefined)]
           \/ evs' = [evs EXCEPT ![e] =
                 IF c = "s"
                 THEN Deliver([ev EXCEPT !.s.pc = "done", !.fault = TRUE], "s", Rejected("store"))
                 ELSE FinishWorker([ev EXCEPT !.fault = TRUE], Rejected("store"))]
    /\ UNCHANGED <<lastIndex, probe, store, server, now, phase, skipWaiting, controlled>>

\* every promise of the event has settled
FetchSettle(e) ==
    /\ evs[e].kind = "fetch"
    /\ ~evs[e].settled
    /\ evs[e].s.pc \in {"off", "done"}
    /\ evs[e].w.pc \in {"off", "done"}
    /\ evs[e].sfc.pc \in {"idle", "resolved", "rejected"}
    /\ evs[e].wfc.pc \in {"idle", "resolved", "rejected"}
    /\ evs' = [evs EXCEPT ![e].settled = TRUE]
    /\ UNCHANGED <<lastIndex, probe, store, server, now, phase, skipWaiting, controlled>>

\* the clock values between requests: the instants around each expiry of
\* an entry stored at 0
Clock == {d * CACHE_EXPIRY + j : d \in 0..(MaxDays - 1), j \in {0, 1}}

\* the clock advances
Tick ==
    /\ \E t \in Clock :
          /\ t > now
          /\ \A u \in Clock : u > now => t <= u
          /\ now' = t
    /\ UNCHANGED <<pureVars, store, server, phase, skipWaiting, controlled, evs>>

(***************************************************************************)
(* Requests to the activated worker, one at a time. CacheStorage starts    *)
(* with what the installation and earlier runs of the worker left: the     *)
(* static resources, entries with or without a sw-cached-time header, or   *)
(* no current generation after a CLEAR_CACHE.                              *)
(***************************************************************************)
DocumentUrl == SelfUrl(<<"/">>)
ImageUrl == SelfUrl(<<"/", "logo", ".png">>)
ApiUrl == [scheme |-> "https://", host |-> <<"api.satalign.pro">>,
           pathname |-> <<"/", "v1", "/", "positions">>, search |-> <<>>]
TelemetryUrl == [ApiUrl EXCEPT !.host = <<"telemetry.satalign.pro">>]
LookalikeUrl == [ImageUrl EXCEPT !.host = SelfHost \o <<".example.com">>]
ForeignUrl == [ImageUrl EXCEPT !.host = <<"cdn.example.com">>]

FetchRequests ==
    {[method |-> "GET", url |-> DocumentUrl, destination |-> "document"],
     [method |-> "GET", url |-> ImageUrl, destination |-> "image"],
     [method |-> "GET", url |-> ApiUrl, destination |-> ""],
     [method |-> "GET", url |-> TelemetryUrl, destination |-> ""],
     [method |-> "POST", url |-> DocumentUrl, destination |-> ""],
     [method |-> "GET", url |-> LookalikeUrl, destination |-> "image"],
     [method |-> "GET", url |-> ForeignUrl, destination |-> "image"]}

\* an entry stored at clock value 0, with the header when stamped
PersistedEntry(url, stamped) ==
    [NetworkResponse(url, 200, 0) EXCEPT
        !.headers = IF stamped THEN WithCachedTime(PlainHeaders, NumberToString(0))
                    ELSE PlainHeaders]

CurrentCache(statics, kept, stamped) ==
    [k \in (IF statics THEN StaticUrls ELSE {}) \cup kept |->
        IF k \in kept THEN PersistedEntry(k, stamped) ELSE NetworkResponse(k, 200, 0)]

InitFetch ==
    /\ InitPure
    /\ \E statics \in BOOLEAN, kept \in {{}, {ImageUrl, ApiUrl}}, stamped \in BOOLEAN,
          foreign \in BOOLEAN, current \in BOOLEAN :
          /\ stamped = (kept # {})
          /\ ~current => ~statics /\ kept = {}
          /\ store = [n \in (IF current THEN {CACHE_NAME} ELSE {})
                              \cup (IF foreign THEN {Foreign} ELSE {}) |->
                        IF n = CACHE_NAME THEN CurrentCache(statics, kept, stamped)
                        ELSE PersistedCache(n)]
    /\ server = 1
    /\ now = 0
    /\ phase = "activated"
    /\ skipWaiting = TRUE
    /\ controlled = ClientSet
    /\ evs = [e \in Slots |-> Idle]

NextFetch ==
    \/ /\ Quiescent
       /\ \/ \E request \in FetchRequests : DispatchFetch(1, request)
          \/ Tick
          \/ Deploy
    \/ \E e \in Slots :
          \/ StrategyOpen(e)
          \/ StrategyMatch(e)
          \/ NetworkOnly(e)
          \/ StrategyFallback(e)
          \/ \E c \in {"s", "w"} :
                \/ FetchAndCacheFetch(e, c)
                \/ FetchAndCacheOpen(e, c)
                \/ FetchAndCachePut(e, c)
                \/ ErrorMatch(e, c)
          \/ WorkerMatch(e)
          \/ FetchSettle(e)

SpecFetch == InitFetch /\ [][NextFetch]_vars

(***************************************************************************)
(* messages SYNC_SATELLITE_DATA and UPDATE_SATELLITE_DATA.                 *)
(* SYNC_SATELLITE_DATA is a case of the first listener only (lines         *)
(* 342-348): await syncSatelliteData(data), then respondToClient.          *)
(* syncSatelliteData is the declaration of lines 999-1019: it has no       *)
(* parameter, posts SATELLITE_DATA_SYNCED to the clients and stores        *)
(* nothing. UPDATE_SATELLITE_DATA is a case of the second listener only    *)
(* (lines 881-888): updateSatelliteData(data).then(post to ports[0]).      *)
(* The other listener logs the type as unknown.                            *)
(***************************************************************************)
SatelliteDataUrl == SelfUrl(<<"/", "satellite-data", ".json">>)

\* event.data.data: nothing, an object without satellites, two payloads
NoData == [defined |-> FALSE, satellites |-> FALSE, id |-> 0]
Payloads == {NoData,
             [defined |-> TRUE, satellites |-> FALSE, id |-> 0],
             [defined |-> TRUE, satellites |-> TRUE, id |-> 1],
             [defined |-> TRUE, satellites |-> TRUE, id |-> 2]}

\* new Response(JSON.stringify(data), {headers: {'Content-Type': ...}})
JsonResponse(data) ==
    [status |-> 200, body |-> [kind |-> "json", data |-> data],
     type |-> "default", headers |-> [x \in {"content-type"} |-> <<"application/json">>]]

DispatchSatelliteData(e, type, data, hasPort) ==
    /\ phase = "activated"
    /\ Settled(evs[e])
    /\ evs' = [evs EXCEPT ![e] =
                 [kind |-> "message", type |-> type, data |-> data, hasPort |-> hasPort,
                  y |-> [pc |-> IF type = "SYNC_SATELLITE_DATA" THEN "notify" ELSE "open",
                         ok |-> TRUE],
                  dels |-> {}, fault |-> FALSE, posted |-> <<>>, settled |-> FALSE,
                  pre |-> store]]
    /\ UNCHANGED <<pureVars, store, server, now, phase, skipWaiting, controlled>>

\* updateSatelliteData 945-947: await caches.open(CACHE_NAME), then the test
\* of data.satellites
UpdateOpen(e) ==
    /\ evs[e].kind = "message"
    /\ evs[e].type = "UPDATE_SATELLITE_DATA"
    /\ evs[e].y.pc = "open"
    /\ \/ /\ store' = Opened(store, CACHE_NAME)
          /\ evs' = [evs EXCEPT ![e].y.pc = IF evs[e].data.satellites THEN "put"
                                            ELSE "notify"]
       \/ /\ evs' = [evs EXCEPT ![e].y = [pc |-> "reply", ok |-> FALSE],
                                ![e].fault = TRUE]
          /\ UNCHANGED store
    /\ UNCHANGED <<pureVars, server, now, phase, skipWaiting, controlled>>

\* updateSatelliteData 949-954: await cache.put('/satellite-data.json', ...)
UpdatePut(e) ==
    /\ evs[e].kind = "message"
    /\ evs[e].type = "UPDATE_SATELLITE_DATA"
    /\ evs[e].y.pc = "put"
    /\ \/ /\ store' = Written(store, CACHE_NAME, SatelliteDataUrl,
                              JsonResponse(evs[e].data))
          /\ evs' = [evs EXCEPT ![e].y.pc = "notify"]
       \/ /\ evs' = [evs EXCEPT ![e].y = [pc |-> "reply", ok |-> FALSE],
                                ![e].fault = TRUE]
          /\ UNCHANGED store
    /\ UNCHANGED <<pureVars, server, now, phase, skipWaiting, controlled>>

\* await self.clients.matchAll(), then a message to every client:
\* SATELLITE_DATA_SYNCED by syncSatelliteData (1009-1015), with its catch
\* that only logs; SATELLITE_DATA_UPDATED by updateSatelliteData (961-972)
SatelliteDataNotify(e) ==
    /\ evs[e].kind = "message"
    /\ evs[e].type \in {"SYNC_SATELLITE_DATA", "UPDATE_SATELLITE_DATA"}
    /\ evs[e].y.pc = "notify"
    /\ \/ evs' = [evs EXCEPT
                    ![e].y.pc = "reply",
                    ![e].posted = @ \o Broadcast(IF evs[e].type = "SYNC_SATELLITE_DATA"
                                                 THEN "SATELLITE_DATA_SYNCED"
                                                 ELSE "SATELLITE_DATA_UPDATED")]
       \/ evs' = [evs EXCEPT ![e].y = [pc |-> "reply", ok |-> FALSE]]
    /\ UNCHANGED <<pureVars, store, server, now, phase, skipWaiting, controlled>>

\* the reply to the sender's port: respondToClient SATELLITE_DATA_SYNCED
\* (344-347), posted when there is a port; post of the result to
\* event.ports[0] (883-886), which throws when there is none
SatelliteDataReply(e) ==
    /\ evs[e].kind = "message"
    /\ evs[e].type \in {"SYNC_SATELLITE_DATA", "UPDATE_SATELLITE_DATA"}
    /\ evs[e].y.pc = "reply"
    /\ evs' = [evs EXCEPT
                 ![e].y.pc = IF evs[e].hasPort \/ evs[e].type = "SYNC_SATELLITE_DATA"
                             THEN "done" ELSE "threw",
                 ![e].settled = TRUE,
                 ![e].posted =
                    IF ~evs[e].hasPort THEN @
                    ELSE IF evs[e].type = "SYNC_SATELLITE_DATA"
                    THEN Append(@, [to |-> "port", type |-> "SATELLITE_DATA_SYNCED"])
                    ELSE Append(@, [to |-> "port", type |-> "SATELLITE_DATA_UPDATED",
                                    success |-> evs[e].y.ok])]
    /\ UNCHANGED <<pureVars, store, server, now, phase, skipWaiting, controlled>>

(***************************************************************************)
(* Maintenance. performCacheCleanup (lines 594-617) runs every 6 hours     *)
(* (schedulePeriodicMaintenance, 668-672) and for the sync tag             *)
(* 'cache-cleanup' (372-374); performMaintenance (1158-1168) runs every 6  *)
(* hours too (1171) and only reads the keys of the current generation.     *)
(* Both bodies are inside a try whose catch only logs.                     *)
(***************************************************************************)
MaintenanceTypes == {"cache-cleanup", "maintenance"}

DispatchMaintenance(e, type) ==
    /\ phase \in {"installed", "activated"}
    /\ Settled(evs[e])
    /\ evs' = [evs EXCEPT ![e] =
                 [kind |-> "timer", type |-> type,
                  m |-> [pc |-> "open", keys |-> {}, expired |-> {}],
                  log |-> "none", dels |-> {}, fault |-> FALSE, settled |-> FALSE,
                  pre |-> store]]
    /\ UNCHANGED <<pureVars, store, server, now, phase, skipWaiting, controlled>>

\* the catch of lines 614-616 (1165-1167)
MaintenanceCatch(ev) ==
    [ev EXCEPT !.m.pc = "log", !.log = "failed", !.fault = TRUE]

\* const cache = await caches.open(CACHE_NAME)  (596, 1160)
MaintenanceOpen(e) ==
    /\ evs[e].kind = "timer"
    /\ evs[e].m.pc = "open"
    /\ \/ /\ store' = Opened(store, CACHE_NAME)
          /\ evs' = [evs EXCEPT ![e].m.pc = "keys"]
       \/ /\ evs' = [evs EXCEPT ![e] = MaintenanceCatch(@)]
          /\ UNCHANGED store
    /\ UNCHANGED <<pureVars, server, now, phase, skipWaiting, controlled>>

\* const requests = await cache.keys()  (597, 1161); performMaintenance
\* logs their number and is done
MaintenanceKeys(e) ==
    /\ evs[e].kind = "timer"
    /\ evs[e].m.pc = "keys"
    /\ \/ evs' = [evs EXCEPT
                    ![e].m.keys = IF CACHE_NAME \in DOMAIN store
                                  THEN DOMAIN store[CACHE_NAME] ELSE {},
                    ![e].m.pc = IF evs[e].type = "cache-cleanup" THEN "scan" ELSE "log",
                    ![e].log = IF evs[e].type = "cache-cleanup" THEN @ ELSE "completed"]
       \/ evs' = [evs EXCEPT ![e] = MaintenanceCatch(@)]
    /\ UNCHANGED <<pureVars, store, server, now, phase, skipWaiting, controlled>>

\* the keys whose deletion the loop of lines 600-607 collects:
\* if (response && isExpired(response))
ExpiredKeys_stamped(st, keys, dateNow) ==
    {k \in keys : /\ CacheMatch(st, CACHE_NAME, k).kind = "entry"
                  /\ "sw-cached-time" \in DOMAIN CacheMatch(st, CACHE_NAME, k).resp.headers}

ExpiredKeys(st, keys, dateNow) ==
    {k \in keys : /\ CacheMatch(st, CACHE_NAME, k).kind = "entry"
                  /\ isExpired(CacheMatch(st, CACHE_NAME, k).resp, dateNow)}

CleanupScan(e) ==
    /\ evs[e].kind = "timer"
    /\ evs[e].m.pc = "scan"
    /\ \/ evs' = [evs EXCEPT ![e].m.expired = ExpiredKeys(store, evs[e].m.keys, now),
                             ![e].m.pc = "delete"]
       \/ evs' = [evs EXCEPT ![e] = MaintenanceCatch(@)]
    /\ UNCHANGED <<pureVars, store, server, now, phase, skipWaiting, controlled>>

\* cache.delete(request) for the keys in gone, through the opened cache
DeletedKeys(st, gone) ==
    IF CACHE_NAME \in DOMAIN st
    THEN [st EXCEPT ![CACHE_NAME] = [k \in DOMAIN @ \ gone |-> @[k]]]
    ELSE st

\* await Promise.all(deletionPromises) (609-611) and the log of line 613;
\* when a deletion fails the others may have been done
CleanupDelete(e) ==
    /\ evs[e].kind = "timer"
    /\ evs[e].m.pc = "delete"
    /\ \/ /\ store' = DeletedKeys(store, evs[e].m.expired)
          /\ evs' = [evs EXCEPT ![e].m.pc = "log", ![e].log = "completed"]
       \/ \E gone \in SUBSET evs[e].m.expired :
             /\ gone # evs[e].m.expired
             /\ store' = DeletedKeys(store, gone)
             /\ evs' = [evs EXCEPT ![e] = MaintenanceCatch(@)]
    /\ UNCHANGED <<pureVars, server, now, phase, skipWaiting, controlled>>

\* the function returns; nothing awaits it
MaintenanceSettle(e) ==
    /\ evs[e].kind = "timer"
    /\ evs[e].m.pc = "log"
    /\ ~evs[e].settled
    /\ evs' = [evs EXCEPT ![e].settled = TRUE]
    /\ UNCHANGED <<pureVars, store, server, now, phase, skipWaiting, controlled>>

(***************************************************************************)
(* The lifecycle, one event at a time: an event is dispatched when every   *)
(* promise of the one before is settled. CacheStorage starts with what     *)
(* earlier versions left.                                                  *)
(***************************************************************************)
InitLife ==
    /\ InitPure
    /\ \E names \in SUBSET {OldV2, Profile, Foreign} : store = PersistedStore(names)
    /\ server = 1
    /\ now = 0
    /\ phase = "parsed"
    /\ skipWaiting = FALSE
    /\ controlled = {}
    /\ evs = [e \in Slots |-> Idle]

NextLife ==
    \/ /\ Quiescent
       /\ \/ DispatchInstall(1)
          \/ DispatchActivate(1)
          \/ \E hasPort \in BOOLEAN : DispatchClearCache(1, hasPort)
          \/ \E hasPort \in BOOLEAN : DispatchGetCacheStatus(1, hasPort)
          \/ DispatchMaintenance(1, "cache-cleanup")
    \/ \E e \in Slots :
          \/ \E l \in {"l1", "l2"} : InstallOpen(e, l) \/ InstallAddAll(e, l)
          \/ InstallBroadcast(e)
          \/ InstallSkipWaiting(e)
          \/ InstallSettle(e)
          \/ \E c \in {"a1", "a2"} :
                \/ ActivateKeys(e, c)
                \/ \E name \in CacheNames : ActivateDelete(e, c, name)
                \/ ActivateClaim(e, c)
                \/ ActivateNotify(e, c)
                \/ ActivateLog(e, c)
          \/ ActivateSettle(e)
          \/ \E c \in {"m1", "m2"} :
                \/ ClearKeys(e, c)
                \/ \E name \in CacheNames : ClearDelete(e, c, name)
                \/ ClearReply(e, c)
          \/ ClearSettle(e)
          \/ \E c \in {"g1", "g2"} :
                \/ StatusKeys(e, c)
                \/ StatusDetails(e, c)
                \/ StatusReply(e, c)
          \/ StatusSettle(e)
          \/ MaintenanceOpen(e)
          \/ MaintenanceKeys(e)
          \/ CleanupScan(e)
          \/ CleanupDelete(e)
          \/ MaintenanceSettle(e)

SpecLife == InitLife /\ [][NextLife]_vars

(***************************************************************************)
(* The data messages and the maintenance of the activated worker, one at   *)
(* a time.                                                                 *)
(***************************************************************************)
\* an entry fetchAndCache of lines 209-230 stored at clock value t
StampedEntry(url, t) ==
    [NetworkResponse(url, 200, 0) EXCEPT
        !.headers = WithCachedTime(PlainHeaders, NumberToString(t))]

\* the static resources, without a timestamp, and entries stamped at 0 and 1
MaintainedCache(kept) ==
    [k \in StaticUrls \cup kept |->
        IF k = ImageUrl THEN StampedEntry(k, 0)
        ELSE IF k = ApiUrl THEN StampedEntry(k, 1)
        ELSE NetworkResponse(k, 200, 0)]

InitData ==
    /\ InitPure
    /\ \E kept \in {{}, {ImageUrl, ApiUrl}}, others \in SUBSET {OldV2, Foreign} :
          store = [n \in {CACHE_NAME} \cup others |->
                        IF n = CACHE_NAME THEN MaintainedCache(kept)
                        ELSE [k \in {ImageUrl} |-> StampedEntry(k, 0)]]
    /\ server = 1
    /\ now = 0
    /\ phase = "activated"
    /\ skipWaiting = TRUE
    /\ controlled = ClientSet
    /\ evs = [e \in Slots |-> Idle]

NextData ==
    \/ /\ Quiescent
       /\ \/ \E type \in {"SYNC_SATELLITE_DATA", "UPDATE_SATELLITE_DATA"},
                data \in Payloads, hasPort \in BOOLEAN :
                  DispatchSatelliteData(1, type, data, hasPort)
          \/ \E type \in MaintenanceTypes : DispatchMaintenance(1, type)
          \/ Tick
    \/ \E e \in Slots :
          \/ UpdateOpen(e)
          \/ UpdatePut(e)
          \/ SatelliteDataNotify(e)
          \/ SatelliteDataReply(e)
          \/ MaintenanceOpen(e)
          \/ MaintenanceKeys(e)
          \/ CleanupScan(e)
          \/ CleanupDelete(e)
          \/ MaintenanceSettle(e)

SpecData == InitData /\ [][NextData]_vars

(***************************************************************************)
(* The activation next to the messages a waiting or active worker          *)
(* receives: the activate event is handled in slot 1 and a message in      *)
(* another slot, their steps in any order. A message reaches a worker that *)
(* is installed, activating or activated.                                  *)
(***************************************************************************)
InitSweep ==
    /\ InitPure
    /\ store = [n \in {CACHE_NAME, OldV2} |-> PersistedCache(n)]
    /\ server = 1
    /\ now = 0
    /\ phase = "installed"
    /\ skipWaiting = TRUE
    /\ controlled = {}
    /\ evs = [e \in Slots |-> Idle]

\* a message event while the activate event is being handled
DispatchWhileActivating(e) ==
    /\ phase = "activating"
    /\ Settled(evs[e])
    /\ \E type \in {"GET_CACHE_STATUS", "CLEAR_CACHE"} :
          evs' = [evs EXCEPT ![e] =
                    IF type = "GET_CACHE_STATUS"
                    THEN [kind |-> "message", type |-> type, hasPort |-> TRUE,
                          g1 |-> NewStatus, g2 |-> NewStatus, dels |-> {},
                          fault |-> FALSE, posted |-> <<>>, settled |-> FALSE,
                          pre |-> store, afterClear |-> FALSE]
                    ELSE [kind |-> "message", type |-> type, hasPort |-> TRUE,
                          m1 |-> NewClear, m2 |-> NewClear, dels |-> {},
                          fault |-> FALSE, posted |-> <<>>, settled |-> FALSE,
                          pre |-> store]]
    /\ UNCHANGED <<pureVars, store, server, now, phase, skipWaiting, controlled>>

NextSweep ==
    \/ phase = "installed" /\ DispatchActivate(1)
    \/ \E e \in Slots \ {1} :
          \/ DispatchGetCacheStatus(e, TRUE)
          \/ DispatchClearCache(e, TRUE)
          \/ DispatchWhileActivating(e)
          \/ \E type \in {"SYNC_SATELLITE_DATA", "UPDATE_SATELLITE_DATA"} :
                DispatchSatelliteData(e, type, [defined |-> TRUE, satellites |-> TRUE,
                                                id |-> 1], TRUE)
    \/ \E e \in Slots :
          \/ \E c \in {"a1", "a2"} :
                \/ ActivateKeys(e, c)
                \/ \E name \in CacheNames : ActivateDelete(e, c, name)
                \/ ActivateClaim(e, c)
                \/ ActivateNotify(e, c)
                \/ ActivateLog(e, c)
          \/ ActivateSettle(e)
          \/ \E c \in {"m1", "m2"} :
                \/ ClearKeys(e, c)
                \/ \E name \in CacheNames : ClearDelete(e, c, name)
                \/ ClearReply(e, c)
          \/ ClearSettle(e)
          \/ \E c \in {"g1", "g2"} :
                \/ StatusKeys(e, c)
                \/ StatusDetails(e, c)
                \/ StatusReply(e, c)
          \/ StatusSettle(e)
          \/ UpdateOpen(e)
          \/ UpdatePut(e)
          \/ SatelliteDataNotify(e)
          \/ SatelliteDataReply(e)

SpecSweep == InitSweep /\ [][NextSweep]_vars

(***************************************************************************)
(* Requests for one URL handled at the same time: every slot holds a fetch *)
(* event for the same image, their steps in any order, so that several     *)
(* calls of fetchAndCache fetch and put the same key.                      *)
(***************************************************************************)
ImageRequest == [method |-> "GET", url |-> ImageUrl, destination |-> "image"]

InitWriters ==
    /\ InitPure
    /\ \E kept \in {{}, {ImageUrl}} : store = [n \in {CACHE_NAME} |-> CurrentCache(FALSE, kept, TRUE)]
    /\ server = 1
    /\ now = CACHE_EXPIRY + 1
    /\ phase = "activated"
    /\ skipWaiting = TRUE
    /\ controlled = ClientSet
    /\ evs = [e \in Slots |-> Idle]

NextWriters ==
    \/ \E e \in Slots : evs[e].kind = "idle" /\ DispatchFetch(e, ImageRequest)
    \/ Deploy
    \/ \E e \in Slots :
          \/ StrategyOpen(e)
          \/ StrategyMatch(e)
          \/ \E c \in {"s", "w"} :
                \/ FetchAndCacheFetch(e, c)
                \/ FetchAndCacheOpen(e, c)
                \/ FetchAndCachePut(e, c)
          \/ WorkerMatch(e)
          \/ FetchSettle(e)

SpecWriters == InitWriters /\ [][NextWriters]_vars

(***************************************************************************)
(* The cache cleanup next to requests: the cleanup runs in slot 1 and a    *)
(* request is handled in another slot, their steps in any order. The       *)
(* current generation holds entries with a timestamp that has expired, for *)
(* the root document and for an image.                                     *)
(***************************************************************************)
DocumentRequest == [method |-> "GET", url |-> DocumentUrl, destination |-> "document"]

InitCleanup ==
    /\ InitPure
    /\ store = [n \in {CACHE_NAME} |->
                  [k \in StaticUrls \cup {ImageUrl} |->
                      IF k \in {DocumentUrl, ImageUrl} THEN StampedEntry(k, 0)
                      ELSE NetworkResponse(k, 200, 0)]]
    /\ server = 1
    /\ now = CACHE_EXPIRY + 1
    /\ phase = "activated"
    /\ skipWaiting = TRUE
    /\ controlled = ClientSet
    /\ evs = [e \in Slots |-> Idle]

NextCleanup ==
    \/ DispatchMaintenance(1, "cache-cleanup")
    \/ \E e \in Slots \ {1}, request \in {DocumentRequest, ImageRequest} :
          DispatchFetch(e, request)
    \/ \E e \in Slots :
          \/ MaintenanceOpen(e)
          \/ MaintenanceKeys(e)
          \/ CleanupScan(e)
          \/ CleanupDelete(e)
          \/ MaintenanceSettle(e)
          \/ StrategyOpen(e)
          \/ StrategyMatch(e)
          \/ \E c \in {"s", "w"} :
                \/ FetchAndCacheFetch(e, c)
                \/ FetchAndCacheOpen(e, c)
                \/ FetchAndCachePut(e, c)
                \/ ErrorMatch(e, c)
          \/ WorkerMatch(e)
          \/ FetchSettle(e)

SpecCleanup == InitCleanup /\ [][NextCleanup]_vars

(***************************************************************************)
(* The life of one worker from its installation on, one event at a time:   *)
(* install, activate, requests for the root document and an image, the     *)
(* cache cleanup, with the clock advancing and the site being redeployed   *)
(* in between. No CLEAR_CACHE. The current generation may exist before the *)
(* installation, with an entry for the root document under a timestamp.    *)
(***************************************************************************)
InitOffline ==
    /\ InitPure
    /\ \E left \in BOOLEAN :
          store = [n \in (IF left THEN {CACHE_NAME} ELSE {}) |->
                      [k \in {DocumentUrl} |-> StampedEntry(k, 0)]]
    /\ server = 1
    /\ now = 0
    /\ phase = "parsed"
    /\ skipWaiting = FALSE
    /\ controlled = {}
    /\ evs = [e \in Slots |-> Idle]

NextOffline ==
    \/ /\ Quiescent
       /\ \/ DispatchInstall(1)
          \/ DispatchActivate(1)
          \/ \E request \in {DocumentRequest, ImageRequest} : DispatchFetch(1, request)
          \/ DispatchMaintenance(1, "cache-cleanup")
          \/ Tick
          \/ Deploy
    \/ \E e \in Slots :
          \/ \E l \in {"l1", "l2"} : InstallOpen(e, l) \/ InstallAddAll(e, l)
          \/ InstallBroadcast(e)
          \/ InstallSkipWaiting(e)
          \/ InstallSettle(e)
          \/ \E c \in {"a1", "a2"} :
                \/ ActivateKeys(e, c)
                \/ ActivateClaim(e, c)
                \/ ActivateNotify(e, c)
                \/ ActivateLog(e, c)
          \/ ActivateSettle(e)
          \/ MaintenanceOpen(e)
          \/ MaintenanceKeys(e)
          \/ CleanupScan(e)
          \/ CleanupDelete(e)
          \/ MaintenanceSettle(e)
          \/ StrategyOpen(e)
          \/ StrategyMatch(e)
          \/ \E c \in {"s", "w"} :
                \/ FetchAndCacheFetch(e, c)
                \/ FetchAndCacheOpen(e, c)
                \/ FetchAndCachePut(e, c)
                \/ ErrorMatch(e, c)
          \/ WorkerMatch(e)
          \/ FetchSettle(e)

SpecOffline == InitOffline /\ [][NextOffline]_vars

(***************************************************************************)
(* One request to the activated worker, handled to its end: every promise  *)
(* the event has pending settles sooner or later (the fetch resolves or    *)
(* rejects, the cache operation resolves or rejects), which is weak        *)
(* fairness of the steps of the event.                                     *)
(***************************************************************************)
RespondSteps ==
    \E e \in Slots :
          \/ StrategyOpen(e)
          \/ StrategyMatch(e)
          \/ NetworkOnly(e)
          \/ StrategyFallback(e)
          \/ \E c \in {"s", "w"} :
                \/ FetchAndCacheFetch(e, c)
                \/ FetchAndCacheOpen(e, c)
                \/ FetchAndCachePut(e, c)
                \/ ErrorMatch(e, c)
          \/ WorkerMatch(e)
          \/ FetchSettle(e)

NextRespond ==
    \/ \E request \in FetchRequests : evs[1].kind = "idle" /\ DispatchFetch(1, request)
    \/ RespondSteps

SpecRespond == InitFetch /\ [][NextRespond]_vars /\ WF_vars(RespondSteps)

\* a cache name of the application: one that begins with satalign-pro
IsAppName(n) == n[1] = "satalign-pro"

(***************************************************************************)
(* C3. When install has completed successfully, the current generation     *)
(* holds an entry for every resource of the static list ("/",              *)
(* "/index.html", "/manifest.json").                                       *)
(***************************************************************************)
C3_StaticResourcesCached ==
    \A e \in Slots :
        (evs[e].kind = "install" /\ evs[e].settled /\ phase = "installed") =>
            /\ CACHE_NAME \in DOMAIN store
            /\ \A p \in {<<"/">>, <<"/", "index", ".html">>, <<"/", "manifest", ".json">>} :
                   SelfUrl(p) \in DOMAIN store[CACHE_NAME]

\* install completed, next to a generation an earlier version left
C3_Witness ==
    /\ evs[1].kind = "install"
    /\ evs[1].settled
    /\ phase = "installed"
    /\ OldV2 \in DOMAIN store
    /\ SelfUrl(<<"/", "manifest", ".json">>) \in DOMAIN store[CACHE_NAME]

(***************************************************************************)
(* C4. Activate is idempotent: when activate is invoked again right after  *)
(* an activate that completed, on a store that holds the current           *)
(* generation, the store after the second activate equals the store after  *)
(* the first, and the current generation is the only generation of the     *)
(* application in it.                                                      *)
(***************************************************************************)
C4_ActivateIdempotent ==
    \A e \in Slots :
        (/\ evs[e].kind = "activate"
         /\ evs[e].again
         /\ Settled(evs[e])
         /\ ~evs[e].fault
         /\ CACHE_NAME \in DOMAIN evs[e].pre) =>
            /\ store = evs[e].pre
            /\ {n \in DOMAIN store : IsAppName(n)} = {CACHE_NAME}

\* a second activate completed, another application's cache still there
C4_Witness ==
    /\ evs[1].kind = "activate"
    /\ evs[1].again
    /\ Settled(evs[1])
    /\ ~evs[1].fault
    /\ DOMAIN store = {CACHE_NAME, Foreign}

(***************************************************************************)
(* C5. The activation sweep deletes every generation whose name begins     *)
(* with the application prefix except the current one, and nothing else:   *)
(* every other cache, the current generation included, is there with the   *)
(* entries it had, and no cache is created.                                *)
(***************************************************************************)
C5_SweepFrame ==
    \A e \in Slots :
        (evs[e].kind = "activate" /\ Settled(evs[e]) /\ ~evs[e].fault) =>
            /\ DOMAIN store \subseteq DOMAIN evs[e].pre
            /\ \A n \in DOMAIN evs[e].pre :
                  IF IsAppName(n) /\ n # CACHE_NAME
                  THEN n \notin DOMAIN store
                  ELSE n \in DOMAIN store /\ store[n] = evs[e].pre[n]

\* an activate deleted two generations and kept the current and a foreign one
C5_Witness ==
    /\ evs[1].kind = "activate"
    /\ Settled(evs[1])
    /\ ~evs[1].fault
    /\ DOMAIN evs[1].pre = {CACHE_NAME, OldV2, Profile, Foreign}
    /\ DOMAIN store = {CACHE_NAME, Foreign}

(***************************************************************************)
(* C10. When CLEAR_CACHE has been handled (the store not failing), no      *)
(* cache whose name begins with the application prefix exists, so no       *)
(* entry of an application generation can be looked up, and every reply    *)
(* posted to the sender's port carries success = true; there is a reply    *)
(* when the message has a port.                                            *)
(***************************************************************************)
C10_ClearCache ==
    \A e \in Slots :
        (evs[e].kind = "message" /\ evs[e].type = "CLEAR_CACHE"
            /\ Settled(evs[e]) /\ ~evs[e].fault) =>
            /\ \A n \in DOMAIN store : ~IsAppName(n)
            /\ \A i \in 1..Len(evs[e].posted) :
                  evs[e].posted[i].type = "CACHE_CLEARED" => evs[e].posted[i].success
            /\ evs[e].hasPort => Len(evs[e].posted) >= 1

\* a clear removed the current generation and an old one, and replied
C10_Witness ==
    /\ evs[1].kind = "message"
    /\ evs[1].type = "CLEAR_CACHE"
    /\ Settled(evs[1])
    /\ ~evs[1].fault
    /\ evs[1].hasPort
    /\ {CACHE_NAME, OldV2} \subseteq DOMAIN evs[1].pre
    /\ DOMAIN store = {Foreign}
    /\ Len(evs[1].posted) >= 1

\* C7: cache round trip. Once fetchAndCache has stored the status-200
\* response R it fetched for a request with key K, a lookup of K in the current
\* generation returns an entry with the status, the body and the headers of R
\* and, as only difference, the added sw-cached-time header.
C7_CacheRoundTrip ==
    \A e \in Slots : \A c \in {"s", "w"} :
        (/\ evs[e].kind = "fetch"
         /\ FcOf(evs[e], c).stored
         /\ FcOf(evs[e], c).pc = "resolved")
        => LET K == evs[e].request.url
               R == FcOf(evs[e], c).resp
               found == CacheMatch(store, CACHE_NAME, K)
           IN  /\ found.kind = "entry"
               /\ found.resp.status = R.status
               /\ found.resp.body = R.body
               /\ DOMAIN found.resp.headers = DOMAIN R.headers \cup {"sw-cached-time"}
               /\ \A h \in DOMAIN R.headers : found.resp.headers[h] = R.headers[h]

\* C8: network-first fallback. When the fetch of network-first fails and the
\* current generation holds an entry for the request, of any age, network-first
\* returns that entry; it fails with the network's error only when there is no
\* entry.
C8_NetworkFirstFallback ==
    \A e \in Slots :
        (/\ evs[e].kind = "fetch"
         /\ evs[e].strategy = "network-first"
         /\ evs[e].sfc.pc = "rejected"
         /\ evs[e].sfc.outcome = Rejected("network")
         /\ evs[e].s.pc = "done"
         /\ ~evs[e].fault)
        => LET found == CacheMatch(store, CACHE_NAME, evs[e].request.url)
           IN  IF found.kind = "entry"
               THEN /\ evs[e].s.result = Resolved(found.resp, "cache")
                    /\ evs[e].delivered =
                          [kind |-> "response", resp |-> found.resp, src |-> "cache"]
               ELSE evs[e].s.result = Rejected("network")

\* the network failed and network-first returned an entry that has expired
C8_Witness ==
    \E e \in Slots :
        /\ evs[e].kind = "fetch"
        /\ evs[e].strategy = "network-first"
        /\ evs[e].sfc.outcome = Rejected("network")
        /\ evs[e].s.pc = "done"
        /\ evs[e].s.result.kind = "resolved"
        /\ evs[e].s.result.resp = store[CACHE_NAME][evs[e].request.url]
        /\ isExpired(evs[e].s.result.resp, now)

\* C9: stale-while-revalidate does not wait. With an entry for the request,
\* the strategy has returned that entry as soon as the background fetch is
\* started, whatever becomes of the fetch; the entry is the response delivered.
C9_StaleWhileRevalidateNonBlocking ==
    \A e \in Slots :
        (/\ evs[e].kind = "fetch"
         /\ evs[e].strategy = "stale-while-revalidate"
         /\ evs[e].s.cached.kind = "entry")
        => /\ evs[e].sfc.pc # "idle"
           /\ evs[e].s.pc = "done"
           /\ evs[e].s.result = Resolved(evs[e].s.cached.resp, "cache")
           /\ evs[e].delivered =
                 [kind |-> "response", resp |-> evs[e].s.cached.resp, src |-> "cache"]
           /\ ~evs[e].wfc.stored
                 => evs[e].s.cached = CacheMatch(store, CACHE_NAME, evs[e].request.url)

\* the entry has been delivered and the background fetch is still pending
C9_Witness ==
    \E e \in Slots :
        /\ evs[e].kind = "fetch"
        /\ evs[e].strategy = "stale-while-revalidate"
        /\ evs[e].sfc.pc = "fetch"
        /\ evs[e].delivered.kind = "response"
        /\ evs[e].delivered.src = "cache"
        /\ evs[e].delivered.resp = store[CACHE_NAME][evs[e].request.url]

\* C11: GET_CACHE_STATUS handled right after a completed CLEAR_CACHE reports
\* zero total caches, whatever caches there were before the clear, those of
\* other applications included.
C11_StatusAfterClear ==
    \A e \in Slots :
        (/\ evs[e].kind = "message"
         /\ evs[e].type = "GET_CACHE_STATUS"
         /\ evs[e].afterClear
         /\ Settled(evs[e])
         /\ ~evs[e].fault)
        => \A i \in 1..Len(evs[e].posted) : evs[e].posted[i].status.totalCaches = 0

\* no fetch of the event was answered: the network was down
NetworkDown(ev) ==
    \A fc \in {ev.sfc, ev.wfc} : fc.outcome.kind # "resolved"

\* C12: end to end. A request for the image URL that no cache holds, the
\* network answering 200, is answered with the network's response for that
\* URL; the same request made next, the network down, is answered from the
\* cache with the same bytes.
C12_EndToEnd ==
    \A e \in Slots :
        (/\ evs[e].kind = "fetch"
         /\ evs[e].request.url = ImageUrl
         /\ evs[e].request.method = "GET"
         /\ Settled(evs[e])
         /\ ~evs[e].fault)
        => /\ (Fresh(evs[e]) /\ AnsweredOk(evs[e]))
                 => /\ evs[e].delivered.kind = "response"
                    /\ evs[e].delivered.resp.status = 200
                    /\ evs[e].delivered.resp.body.url = ImageUrl
           /\ (evs[e].prev.kind = "first" /\ NetworkDown(evs[e]))
                 => /\ evs[e].delivered.kind = "response"
                    /\ evs[e].delivered.src = "cache"
                    /\ evs[e].delivered.resp.body = evs[e].prev.body

\* C13: cache-first with a fresh hit. When the current generation holds an
\* entry for the request that is not expired, cache-first returns that entry;
\* it calls no fetchAndCache, so it fetches nothing and writes nothing.
C13_CacheFirstFreshHit ==
    \A e \in Slots :
        (/\ evs[e].kind = "fetch"
         /\ evs[e].strategy = "cache-first"
         /\ evs[e].s.cached.kind = "entry"
         /\ ~isExpired(evs[e].s.cached.resp, now))
        => /\ evs[e].s.pc = "done"
           /\ evs[e].s.result = Resolved(evs[e].s.cached.resp, "cache")
           /\ evs[e].delivered =
                 [kind |-> "response", resp |-> evs[e].s.cached.resp, src |-> "cache"]
           /\ evs[e].sfc.pc = "idle"
           /\ ~evs[e].sfc.stored
           /\ evs[e].wfc.pc = "idle"
                 => evs[e].s.cached = CacheMatch(store, CACHE_NAME, evs[e].request.url)

\* an entry stamped exactly 24 hours ago was returned, nothing fetched
C13_Witness ==
    \E e \in Slots :
        /\ evs[e].kind = "fetch"
        /\ evs[e].strategy = "cache-first"
        /\ Settled(evs[e])
        /\ evs[e].s.cached.kind = "entry"
        /\ "sw-cached-time" \in DOMAIN evs[e].s.cached.resp.headers
        /\ now = CACHE_EXPIRY
        /\ evs[e].delivered.kind = "response"
        /\ evs[e].delivered.resp = store[CACHE_NAME][evs[e].request.url]
        /\ evs[e].sfc.pc = "idle"

\* C14: cache-first with a missing or an expired entry calls fetchAndCache;
\* when the network fails, it returns the expired entry if there is one and
\* fails with the network's error if there is none. (Stated of the event
\* while it is handled: the clock is then the clock of the lookup.)
C14_CacheFirstMissOrExpired ==
    \A e \in Slots :
        (/\ evs[e].kind = "fetch"
         /\ ~evs[e].settled
         /\ evs[e].strategy = "cache-first"
         /\ evs[e].s.pc \in {"await", "done"}
         /\ evs[e].s.result # Rejected("store")
         /\ \/ evs[e].s.cached.kind = "none"
            \/ isExpired(evs[e].s.cached.resp, now))
        => /\ evs[e].sfc.pc # "idle"
           /\ evs[e].sfc.outcome = Rejected("network")
                 => /\ evs[e].s.pc = "done"
                    /\ IF evs[e].s.cached.kind = "entry"
                       THEN /\ evs[e].s.result = Resolved(evs[e].s.cached.resp, "cache")
                            /\ evs[e].delivered = [kind |-> "response",
                                  resp |-> evs[e].s.cached.resp, src |-> "cache"]
                       ELSE evs[e].s.result = Rejected("network")

\* the network failed and cache-first returned the expired entry
C14_Witness ==
    \E e \in Slots :
        /\ evs[e].kind = "fetch"
        /\ evs[e].strategy = "cache-first"
        /\ evs[e].sfc.outcome = Rejected("network")
        /\ evs[e].s.cached.kind = "entry"
        /\ isExpired(evs[e].s.cached.resp, now)
        /\ evs[e].delivered.kind = "response"
        /\ evs[e].delivered.resp = store[CACHE_NAME][evs[e].request.url]

\* C15: fetchAndCache writes an entry into the current generation if and only
\* if the status of the network's response is 200; a response with another
\* status is returned and not stored; the response returned to the caller is
\* always the network's own, without a sw-cached-time header.
C15_StoresExactlyStatus200 ==
    \A e \in Slots : \A c \in {"s", "w"} :
        (/\ evs[e].kind = "fetch"
         /\ FcOf(evs[e], c).pc = "resolved")
        => LET fc == FcOf(evs[e], c)
           IN  /\ fc.stored <=> fc.resp.status = 200
               /\ fc.stored => FetchAndCacheUrl(evs[e], c) \in DOMAIN store[CACHE_NAME]
               /\ fc.outcome.resp = fc.resp
               /\ "sw-cached-time" \notin DOMAIN fc.outcome.resp.headers

\* every cache there was holds the entries it had, and a cache there was not
\* holds none
EntriesUnchanged(before, after) ==
    /\ \A n \in DOMAIN before : n \in DOMAIN after /\ after[n] = before[n]
    /\ \A n \in DOMAIN after \ DOMAIN before : after[n] = EmptyCache

\* C16: network-only fetches and touches no cache entry. While and after a
\* telemetry request is handled, no entry was looked up, fetchAndCache was not
\* called, and every cache holds the entries it held, whether the fetch
\* succeeded or failed; the answer is the network's, or the 503 error.
C16_NetworkOnlyNoCache ==
    \A e \in Slots :
        (evs[e].kind = "fetch" /\ evs[e].strategy = "network-only")
        => /\ evs[e].s.pc \in {"open", "net", "done"}
           /\ evs[e].s.cached = NoEntry
           /\ evs[e].w.pc = "off"
           /\ evs[e].sfc.pc = "idle"
           /\ evs[e].wfc.pc = "idle"
           /\ EntriesUnchanged(evs[e].pre, store)
           /\ (evs[e].s.pc = "done" /\ ~evs[e].fault)
                 => /\ evs[e].delivered.kind = "response"
                    /\ IF evs[e].s.result.kind = "resolved"
                       THEN /\ evs[e].delivered.src = "network"
                            /\ evs[e].delivered.resp.body.url = evs[e].request.url
                       ELSE evs[e].delivered.resp = ErrorJson(evs[e].request.url)

\* a telemetry request whose fetch failed was answered with the 503 error
C16_Witness ==
    \E e \in Slots :
        /\ evs[e].kind = "fetch"
        /\ evs[e].request.url = TelemetryUrl
        /\ evs[e].strategy = "network-only"
        /\ Settled(evs[e])
        /\ evs[e].s.result = Rejected("network")
        /\ evs[e].delivered.kind = "response"
        /\ evs[e].delivered.resp.status = 503
        /\ ImageUrl \in DOMAIN store[CACHE_NAME]

\* C17: request admission. A request is handled by a strategy if and only if
\* its method is GET and its URL is of the worker's origin or an API or a
\* telemetry URL; any other request is not intercepted (respondWith is not
\* called) and no cache is read or written for it.
C17_RequestAdmission ==
    \A e \in Slots :
        evs[e].kind = "fetch"
        => LET request == evs[e].request
               admitted == /\ request.method = "GET"
                           /\ \/ Origin(request.url) = SelfOrigin
                              \/ IsApiUrl(request.url)
                              \/ IsTelemetryUrl(request.url)
           IN  /\ (evs[e].s.pc # "off") <=> admitted
               /\ ~admitted
                     => /\ evs[e].responder = "none"
                        /\ evs[e].delivered = PassThrough
                        /\ evs[e].w.pc = "off"
                        /\ evs[e].sfc.pc = "idle"
                        /\ evs[e].wfc.pc = "idle"
                        /\ store = evs[e].pre

\* C18: a document request with nothing left to answer it. When the current
\* generation has no entry for an admitted document request and the network
\* fails, the response delivered is the cached root document if a cache has
\* one, else the offline page with status 503; it is no error.
C18_DocumentFallback ==
    \A e \in Slots :
        (/\ evs[e].kind = "fetch"
         /\ evs[e].request.destination = "document"
         /\ evs[e].s.pc = "done"
         /\ ~evs[e].fault
         /\ evs[e].s.cached.kind = "none"
         /\ evs[e].sfc.outcome = Rejected("network"))
        => LET root == CachesMatch(store, SelfUrl(<<"/", "index", ".html">>))
           IN  /\ evs[e].delivered.kind = "response"
               /\ evs[e].delivered.resp =
                     IF root.kind = "entry" THEN root.resp
                     ELSE OfflinePage(evs[e].request.url)

\* the fetch the strategy made failed
StrategyFetchFailed(ev) ==
    \/ ev.sfc.outcome = Rejected("network")
    \/ ev.strategy = "network-only" /\ ev.s.result = Rejected("network")

\* C19: an admitted request that is not for a document, with nothing left to
\* answer it. When the network fails and the current generation has no entry
\* for the request, the response delivered is the made-up JSON error with
\* status 503, not an error.
C19_NonDocumentFallback ==
    \A e \in Slots :
        (/\ evs[e].kind = "fetch"
         /\ evs[e].request.destination # "document"
         /\ evs[e].s.pc = "done"
         /\ evs[e].s.cached.kind = "none"
         /\ StrategyFetchFailed(evs[e]))
        => /\ evs[e].s.result.kind = "rejected"
           /\ evs[e].delivered.kind = "response"
           /\ evs[e].delivered.resp = ErrorJson(evs[e].request.url)
           /\ evs[e].delivered.resp.status = 503

\* an API request failed with no entry and was answered with the 503 error
C19_Witness ==
    \E e \in Slots :
        /\ evs[e].kind = "fetch"
        /\ evs[e].strategy = "network-first"
        /\ evs[e].request.url = ApiUrl
        /\ evs[e].sfc.outcome = Rejected("network")
        /\ evs[e].s.pc = "done"
        /\ ~evs[e].fault
        /\ ApiUrl \notin DOMAIN store[CACHE_NAME]
        /\ evs[e].delivered.kind = "response"
        /\ evs[e].delivered.resp.status = 503

\* the install failed: a waitUntil promise rejected, and all are settled
InstallFailed(ev) ==
    /\ ev.kind = "install"
    /\ ev.settled
    /\ ev.l1 = "failed" \/ ev.l2 = "failed"

\* C20: a failure of the bulk write aborts the installation. When addAll (or
\* the open before it) fails in a listener, the install fails: the worker is
\* discarded and stays so, it is never activated, no client is sent
\* SW_INSTALLED, and every cache there was before is still there.
C20_InstallFailureAborts ==
    /\ [](\A e \in Slots :
            InstallFailed(evs[e])
            => /\ phase = "redundant"
               /\ \A i \in 1..Len(evs[e].posted) : evs[e].posted[i].type # "SW_INSTALLED"
               /\ \A n \in DOMAIN evs[e].pre : n \in DOMAIN store)
    /\ [][phase = "redundant" => phase' = "redundant" /\ store' = store]_vars

\* the first listener's addAll failed on the network, an old generation there
C20_Witness ==
    /\ InstallFailed(evs[1])
    /\ evs[1].l1 = "failed"
    /\ ~evs[1].fault
    /\ phase = "redundant"
    /\ OldV2 \in DOMAIN store

\* the message was posted to every client the worker controls
BroadcastTo(posted, types) ==
    \A c \in controlled :
        \E i \in 1..Len(posted) : posted[i].to = c /\ posted[i].type \in types

\* C21: SYNC_SATELLITE_DATA and UPDATE_SATELLITE_DATA with a payload store
\* the payload under /satellite-data.json in the current generation and tell
\* every client that the data changed: when the message has been handled, a
\* lookup of the key returns the payload.
C21_SatelliteDataStored ==
    \A e \in Slots :
        (/\ evs[e].kind = "message"
         /\ evs[e].type \in {"SYNC_SATELLITE_DATA", "UPDATE_SATELLITE_DATA"}
         /\ evs[e].data.satellites
         /\ Settled(evs[e])
         /\ ~evs[e].fault
         /\ evs[e].y.ok)
        => LET found == CacheMatch(store, CACHE_NAME, SatelliteDataUrl)
           IN  /\ found.kind = "entry"
               /\ found.resp.body = [kind |-> "json", data |-> evs[e].data]
               /\ BroadcastTo(evs[e].posted,
                              {"SATELLITE_DATA_UPDATED", "SATELLITE_DATA_SYNCED"})

C23_SkipWaitingAfterBulkWrite ==
    (phase = "installing" /\ skipWaiting) =>
        /\ CACHE_NAME \in DOMAIN store
        /\ StaticUrls \subseteq DOMAIN store[CACHE_NAME]

\* C24: once an activate has completed (its sweep and claim not failing), no
\* cache with the application prefix other than the current generation
\* exists in any later state, whatever requests and control messages
\* (GET_CACHE_STATUS, CLEAR_CACHE, the data messages) are handled next to it
\* or after it.
C24_NoOldGenerationAfterActivate ==
    (/\ evs[1].kind = "activate"
     /\ Settled(evs[1])
     /\ ~evs[1].fault)
    => OldCaches(DOMAIN store) = {}

\* C25: a failure of the cache store is surfaced to the caller, never
\* swallowed. When the network answered the fetch of fetchAndCache with
\* status 200 and the write of the response (the open or the put) failed,
\* the request is not answered with a cached entry as if nothing had
\* happened. Stated of the strategies that wait for fetchAndCache,
\* network-first and cache-first.
C25_StoreFailureSurfaced ==
    \A e \in Slots :
        (/\ evs[e].kind = "fetch"
         /\ evs[e].strategy \in {"network-first", "cache-first"}
         /\ evs[e].responder = "s"
         /\ evs[e].s.pc = "done"
         /\ evs[e].sfc.outcome = Rejected("store")
         /\ evs[e].sfc.resp.status = 200)
        => ~(/\ evs[e].delivered.kind = "response"
             /\ evs[e].delivered.src = "cache")

\* C26: the errors of the background fetch of stale-while-revalidate never
\* escape. When there is an entry for the request and the background
\* fetchAndCache has failed, the strategy has resolved with the entry, the
\* entry is the response delivered, and the entry is still stored as it was.
C26_BackgroundErrorContained ==
    \A e \in Slots :
        (/\ evs[e].kind = "fetch"
         /\ evs[e].strategy = "stale-while-revalidate"
         /\ evs[e].s.cached.kind = "entry"
         /\ evs[e].sfc.outcome.kind = "rejected")
        => /\ evs[e].s.pc = "done"
           /\ evs[e].s.result.kind = "resolved"
           /\ evs[e].s.result.resp = evs[e].s.cached.resp
           /\ evs[e].delivered.kind = "response"
           /\ evs[e].delivered.resp = evs[e].s.cached.resp
           /\ ~evs[e].wfc.stored
                 => CacheMatch(store, CACHE_NAME, evs[e].request.url) = evs[e].s.cached

\* the background fetch failed on the network after the entry was delivered
C26_Witness ==
    \E e \in Slots :
        /\ evs[e].kind = "fetch"
        /\ evs[e].strategy = "stale-while-revalidate"
        /\ evs[e].s.cached.kind = "entry"
        /\ evs[e].sfc.outcome = Rejected("network")
        /\ evs[e].settled
        /\ evs[e].delivered.kind = "response"
        /\ evs[e].delivered.resp = store[CACHE_NAME][evs[e].request.url]

\* C27: stale-while-revalidate heals itself. Every execution starts a
\* background fetchAndCache, also when an entry was found, and when that
\* fetch was answered with status 200 the entry for the request in the
\* current generation ends up replaced by the network's response with a new
\* timestamp: once every promise of the event has settled, the lookup of the
\* request gives the network's content for it under a sw-cached-time header.
C27_SelfHealing ==
    \A e \in Slots :
        (/\ evs[e].kind = "fetch"
         /\ evs[e].strategy = "stale-while-revalidate"
         /\ evs[e].settled
         /\ ~evs[e].fault
         /\ evs[e].s.pc = "done")
        => /\ evs[e].sfc.pc # "idle"
           /\ (evs[e].sfc.outcome.kind = "resolved" /\ evs[e].sfc.resp.status = 200)
                 => LET found == CacheMatch(store, CACHE_NAME, evs[e].request.url)
                    IN  /\ found.kind = "entry"
                        /\ found.resp.body.url = evs[e].request.url
                        /\ "sw-cached-time" \in DOMAIN found.resp.headers

\* the step in which fetchAndCache of chain c of event e completes its put
PutStep(e, c) ==
    /\ evs[e].kind = "fetch"
    /\ evs'[e].kind = "fetch"
    /\ ~FcOf(evs[e], c).stored
    /\ FcOf(evs'[e], c).stored

\* the calls of fetchAndCache that have stored a response under url
Writers(url) ==
    {w \in Slots \X {"s", "w"} :
        /\ evs[w[1]].kind = "fetch"
        /\ FetchAndCacheUrl(evs[w[1]], w[2]) = url
        /\ FcOf(evs[w[1]], w[2]).stored}

C29_NetworkFirstNon200 ==
    \A e \in Slots :
        (/\ evs[e].kind = "fetch"
         /\ evs[e].strategy = "network-first"
         /\ evs[e].sfc.outcome.kind = "resolved"
         /\ evs[e].sfc.outcome.resp.status # 200)
        => /\ evs[e].s.pc = "done"
           /\ evs[e].s.result = evs[e].sfc.outcome
           /\ evs[e].s.result.src = "network"
           /\ evs[e].delivered =
                 [kind |-> "response", resp |-> evs[e].sfc.outcome.resp, src |-> "network"]
           /\ ~evs[e].sfc.stored
           /\ ~evs[e].wfc.stored => EntriesUnchanged(evs[e].pre, store)

\* the network answered 404 while the current generation holds an entry for
\* the request, and the 404 was delivered
C29_Witness ==
    \E e \in Slots :
        /\ evs[e].kind = "fetch"
        /\ evs[e].strategy = "network-first"
        /\ evs[e].sfc.outcome.kind = "resolved"
        /\ evs[e].sfc.outcome.resp.status = 404
        /\ CacheMatch(store, CACHE_NAME, evs[e].request.url).kind = "entry"
        /\ evs[e].settled
        /\ evs[e].delivered.kind = "response"
        /\ evs[e].delivered.resp.status = 404

\* C30: an error in a sub-step of activate (the deletion of the old
\* generations, the claim of the clients) is logged and not propagated. A
\* chain with a failed sub-step ends in its catch, the activate completes
\* and the worker is activated all the same, so the next events (a cleanup,
\* a message) are dispatched to it; a failed sub-step is not run again
\* while the event is handled; and the worker, once activating, is never
\* discarded.
C30_ActivateErrorsLogged ==
    /\ [](\A e \in Slots :
             (evs[e].kind = "activate" /\ evs[e].fault /\ Settled(evs[e]))
             => /\ phase = "activated"
                /\ \A c \in {"a1", "a2"} :
                      (evs[e][c].sweep = "rejected" \/ evs[e][c].claim = "rejected")
                      => evs[e][c].pc = "logged"
                /\ ENABLED DispatchMaintenance(e, "cache-cleanup")
                /\ ENABLED DispatchGetCacheStatus(e, TRUE))
    /\ [][/\ phase \in {"activating", "activated"}
               => phase' \in {"activating", "activated"}
          /\ \A e \in Slots, c \in {"a1", "a2"} :
               (evs[e].kind = "activate" /\ ~evs[e].settled)
               => /\ evs[e][c].sweep = "rejected" => evs'[e][c].sweep = "rejected"
                  /\ evs[e][c].claim = "rejected" => evs'[e][c].claim = "rejected"]_vars

\* the deletion of an old generation failed in the first listener's chain,
\* the activate completed, and the old generation is still there
C30_Witness ==
    \E e \in Slots :
        /\ evs[e].kind = "activate"
        /\ evs[e].fault
        /\ Settled(evs[e])
        /\ evs[e].a1.sweep = "rejected"
        /\ evs[e].a1.pc = "logged"
        /\ phase = "activated"
        /\ OldV2 \in DOMAIN store

\* the number of messages of a type posted to a client
Received(posted, c, type) ==
    Cardinality({i \in 1..Len(posted) : posted[i].to = c /\ posted[i].type = type})

\* C31: a broadcast delivers the message to every open client instance, to
\* each exactly once. When the first install listener has broadcast
\* SW_INSTALLED, and when the first activate listener has broadcast
\* SW_ACTIVATED, every open client has been posted that message once.
C31_BroadcastReachesEveryClient ==
    \A e \in Slots :
        /\ (evs[e].kind = "install" /\ evs[e].l1 = "done")
              => \A c \in ClientSet : Received(evs[e].posted, c, "SW_INSTALLED") = 1
        /\ (evs[e].kind = "activate" /\ evs[e].a1.pc = "done")
              => \A c \in ClientSet : Received(evs[e].posted, c, "SW_ACTIVATED") = 1

C34_AdmittedRequestAnswered ==
    \A e \in Slots :
        (evs[e].kind = "fetch" /\ evs[e].responder = "s")
        ~> (/\ evs[e].kind = "fetch"
            /\ evs[e].delivered.kind = "response"
            /\ evs[e].delivered.src \in {"cache", "network", "fallback"})

\* the first activate listener has broadcast, to at least one client
SentActivated(ev) ==
    \E i \in 1..Len(ev.posted) : ev.posted[i].type = "SW_ACTIVATED"

\* C35: SW_ACTIVATED is broadcast only after the deletion of the old
\* generations and the claim of the clients have completed successfully. In
\* the step in which the first listener broadcasts it, its sweep and its
\* claim have resolved and no generation with the application prefix that
\* existed when the activation started, other than the current one, exists;
\* and when its sweep or its claim failed, SW_ACTIVATED is posted to nobody.
C35_ActivatedAfterSubSteps ==
    /\ [](\A e \in Slots :
             (/\ evs[e].kind = "activate"
              /\ evs[e].a1.sweep = "rejected" \/ evs[e].a1.claim = "rejected")
             => ~SentActivated(evs[e]))
    /\ [][\A e \in Slots :
             (/\ evs[e].kind = "activate"
              /\ evs'[e].kind = "activate"
              /\ ~SentActivated(evs[e])
              /\ SentActivated(evs'[e]))
             => /\ evs[e].a1.sweep = "resolved"
                /\ evs[e].a1.claim = "ok"
                /\ OldCaches(DOMAIN evs[e].pre) \cap DOMAIN store' = {}]_vars

====
